---- MODULE Spec2Model ----
(***************************************************************************)
(* State-machine model of the agent execution core of in-house-system:     *)
(* the ReAct graph (reason / act / observe / finalize) of the ClickUp and  *)
(* Notion engines, the MCP session client they share, and the SSE stream   *)
(* generators of the three chat/stream endpoints.                          *)
(***************************************************************************)
EXTENDS Integers, Sequences, FiniteSets, TLC

VARIABLES
    engine,            \* "clickup" | "notion": which graph builder runs
    mcp_client,        \* TRUE iff the builder was constructed with a session client
    max_iterations,    \* state["max_iterations"]
    messages,          \* state["messages"]
    node_sequence,     \* state["node_sequence"]
    execution_logs,    \* state["execution_logs"]
    current_iteration, \* state["current_iteration"]
    tool_history,      \* state["tool_history"]
    processed_tools,   \* state["processed_tools"] (a channel of NotionState only)
    is_final_answer,   \* state["is_final_answer"]
    pc,                \* node the graph runs next, "end" or "raised"
    fault,             \* what ended the run when pc = "raised"
    client,            \* the MCP client object: _initialized, session, stdio, tools
    tools,             \* the graph builder's self.tools (cached catalog)
    gateway_log,       \* calls made on the client / tools by the most recent Act
    turn,              \* number of the chat turn of this conversation
    site,              \* streaming call site of the stream model
    sse,               \* items written to the HTTP response by the generator
    gen,               \* position of the stream generator
    result,            \* values passed through extract_clickup_ids: x, f(x), f(f(x))
    supervisor,        \* the supervisor variant: catalog and the sub-agents built from it
    sessions,          \* transports / sessions opened so far and what the client holds
    conv,              \* concurrent conversations: where each one is suspended
    checkpoint         \* the checkpoint store's latest entry for the conversation id

vars == << engine, mcp_client, max_iterations, messages, node_sequence,
           execution_logs, current_iteration, tool_history, processed_tools,
           is_final_answer, pc, fault, client, tools, gateway_log, turn,
           site, sse, gen, result, supervisor, sessions, conv, checkpoint >>

engineVars == << engine, mcp_client, max_iterations, messages, node_sequence,
                 execution_logs, current_iteration, tool_history,
                 processed_tools, is_final_answer, pc, fault, client, tools,
                 gateway_log, turn, result >>

streamVars == << site, sse, gen >>

otherVars == << supervisor, sessions, conv, checkpoint >>

-----------------------------------------------------------------------------
(* Bounds of the model *)

MaxIter == 2          \* max_iterations ranges over 0..MaxIter in Spec
MaxTurns == 2         \* turns of one conversation in SpecTurns
MaxTurnIter == 2      \* max_iterations ranges over 1..MaxTurnIter in SpecTurns
MaxEvents == 3        \* library events consumed by one stream in SpecStream
MaxChatIter == 3      \* max_iterations ranges over 1..MaxChatIter in SpecChat
MaxChunks == 1        \* text chunks the model streams in one Reason step
MaxClientOps == 3     \* calls made on one session client in SpecClient
MaxCatalog == 3       \* tools of a catalog handed to the supervisor in SpecSupervisor
MaxSessions == 3      \* transports opened on one client in SpecRace
MaxDepth == 2         \* nesting depth of the tool results in SpecNormalize
MaxPrefix == 3        \* "lc_" prefixes in front of a string in SpecNormalize
MaxMissCatalog == 12  \* names of a tool catalog in SpecMiss
MaxMissIter == 2      \* max_iterations in SpecMiss
MaxItems == 22        \* items of a payload handed to a formatter in SpecSummary
MaxSizeK == 4         \* strings of a tool result have up to 1000 * MaxSizeK characters
MaxListItems == 4     \* items of a list result in SpecBudget
MaxHealthIter == 3    \* max_iterations in SpecHealth

(* Program constants *)

DefaultMaxIterations == 10    \* max_iterations default of the agents
DefaultRecursionLimit == 25   \* graph framework's limit when the config names none

-----------------------------------------------------------------------------
(* NodeNames *)

REASON == "reason"
ACT == "act"
OBSERVE == "observe"
FINALIZE == "finalize"

-----------------------------------------------------------------------------
(* Messages, tool calls and tool records *)

NoCalls == << >>

HumanMessage ==
    [role |-> "human", calls |-> NoCalls, id |-> "", body |-> "user", tool |-> ""]

AIMessage(calls) ==
    [role |-> "ai", calls |-> calls, id |-> "", body |-> "text", tool |-> ""]

ToolMessage(id, body, tool) ==
    [role |-> "tool", calls |-> NoCalls, id |-> id, body |-> body, tool |-> tool]

\* tool calls an assistant turn may carry
CallA == [id |-> "a", name |-> "get_spaces", args |-> "p"]
CallB == [id |-> "b", name |-> "search_docs", args |-> "q"]
CallG == [id |-> "g", name |-> "ghost_tool", args |-> "p"]
CallE == [id |-> "", name |-> "get_spaces", args |-> "p"]

\* the assistant turns the model may stream in one Reason step
ResponsePool ==
    { NoCalls, << CallA >>, << CallB >>, << CallA, CallB >>, << CallG >>,
      << CallE >> }

\* catalogs the gateway may serve
FullCatalog == << "get_spaces", "search_docs" >>
ReducedCatalog == << "search_docs" >>
Catalogs == { FullCatalog, ReducedCatalog }

RECURSIVE SeqToSet(_)
SeqToSet(s) == IF s = << >> THEN {} ELSE { Head(s) } \cup SeqToSet(Tail(s))

RECURSIVE Count(_, _)
Count(s, x) ==
    IF s = << >> THEN 0
    ELSE (IF Head(s) = x THEN 1 ELSE 0) + Count(Tail(s), x)

Last(s) == s[Len(s)]

\* last_message.tool_calls if hasattr(last_message, "tool_calls") else []
ToolCallsOf(msg) == IF msg.role = "ai" THEN msg.calls ELSE NoCalls

-----------------------------------------------------------------------------
(* Continuation policy *)

\* variant: the ceiling test is strict
should_continue_strict(cur, max, final) ==
    IF cur > max THEN FINALIZE
    ELSE IF final THEN FINALIZE
    ELSE ACT

\* variant: the ceiling test fires one iteration early
should_continue_early(cur, max, final) ==
    IF cur + 1 >= max THEN FINALIZE
    ELSE IF final THEN FINALIZE
    ELSE ACT

should_continue(cur, max, final) ==
    IF cur >= max THEN FINALIZE
    ELSE IF final THEN FINALIZE
    ELSE ACT

\* recursion_limit of the run config
RecursionLimit ==
    IF engine = "clickup" THEN DefaultRecursionLimit
    ELSE max_iterations * 4 + 10

\* supersteps the run has executed; the framework stops the run when the
\* limit is reached and a node is still due
Steps == Len(node_sequence)

CanStep == Steps < RecursionLimit

-----------------------------------------------------------------------------
(* MCP session client *)

NewClient ==
    [initialized |-> FALSE, session |-> "none", stdio |-> "none", tools |-> << >>]

ActiveClient(catalog) ==
    [initialized |-> TRUE, session |-> "open", stdio |-> "open", tools |-> catalog]

\* what one attempt to connect and load the catalog can do
InitOutcomes == { "full", "reduced", "fail_transport", "fail_session" }

CatalogOf(out) == IF out = "reduced" THEN ReducedCatalog ELSE FullCatalog

\* a client that never takes the cached branch
InitIsCached_never(c) == FALSE

\* initialize() returns the cached catalog when the client is already active
InitIsCached(c) == c.initialized /\ c.session # "none"

InitRaises(c, out) ==
    ~InitIsCached(c) /\ out \in { "fail_transport", "fail_session" }

InitializeClient(c, out) ==
    IF InitIsCached(c) THEN c
    ELSE IF out = "fail_transport"
         THEN [c EXCEPT !.stdio = "pending"]
    ELSE IF out = "fail_session"
         THEN [c EXCEPT !.stdio = "open", !.session = "open"]
    ELSE ActiveClient(CatalogOf(out))

CloseClient(c) == IF ~c.initialized THEN c ELSE NewClient

\* get_tools() after a successful initialize(): the client is initialized, so
\* a further initialize() returns the cached catalog
GetTools(c) == c.tools

\* ensure_session(): probe is what the liveness check finds, out1 / out2 what
\* the connection attempts do.  The result is the client afterwards and
\* whether ensure_session raised.
NeedsInit(c) == ~c.initialized \/ c.session = "none" \/ c.tools = << >>

EnsureClickUp(c, probe, out1, out2) ==
    IF NeedsInit(c)
    THEN [client |-> InitializeClient(c, out1), raised |-> InitRaises(c, out1)]
    ELSE IF probe = "healthy" THEN [client |-> c, raised |-> FALSE]
    ELSE LET c1 == CloseClient(c)
             c2 == InitializeClient(c1, out1)
         IN  IF ~InitRaises(c1, out1) THEN [client |-> c2, raised |-> FALSE]
             ELSE LET c3 == CloseClient(c2)
                  IN  [client |-> InitializeClient(c3, out2),
                       raised |-> InitRaises(c3, out2)]

EnsureNotion(c, probe, out1, out2) ==
    IF NeedsInit(c)
    THEN [client |-> InitializeClient(c, out1), raised |-> InitRaises(c, out1)]
    ELSE IF probe = "healthy" THEN [client |-> c, raised |-> FALSE]
    ELSE LET c1 == CloseClient(c)
         IN  [client |-> InitializeClient(c1, out1),
              raised |-> InitRaises(c1, out1)]

\* an ensure_session that closes a dead session and stops there
EnsureSession_noreinit(e, c, probe, out1, out2) ==
    IF NeedsInit(c)
    THEN [client |-> InitializeClient(c, out1), raised |-> InitRaises(c, out1)]
    ELSE IF probe = "healthy" THEN [client |-> c, raised |-> FALSE]
    ELSE [client |-> CloseClient(c), raised |-> FALSE]

EnsureSession(e, c, probe, out1, out2) ==
    IF e = "clickup" THEN EnsureClickUp(c, probe, out1, out2)
    ELSE EnsureNotion(c, probe, out1, out2)

-----------------------------------------------------------------------------
(* Tool invocation outcomes *)

\* values a tool invocation can return
Returns == { "data", "bad_shape", "empty_str", "empty_list", "none" }

\* faults a tool invocation can raise: ClosedResourceError, another fault
\* type whose message mentions ClosedResourceError, any other fault
Faults == { "closed", "mention", "other" }

\* "ClosedResourceError" in str(type(e).__name__) or "ClosedResourceError" in str(e)
IsSessionClosedFault(f) == f \in { "closed", "mention" }

\* extract_clickup_ids: None stays None, a blank string becomes a notice, an
\* empty list stays an empty list, anything else keeps its shape
extract_clickup_ids(r) ==
    IF r = "none" THEN "none"
    ELSE IF r = "empty_str" THEN "empty_notice"
    ELSE r

\* result post-processing of the engine before the None test
PostProcess(e, r) ==
    IF e = "clickup" THEN (IF r # "none" THEN extract_clickup_ids(r) ELSE r)
    ELSE r

ToolRecord(call, success, kind) ==
    [tool |-> call.name, args |-> call.args, tool_call_id |-> call.id,
     success |-> success, kind |-> kind, listed |-> << >>]

\* number of catalog names the error text of an unknown tool lists
ListedNamesCap == 10

\* a diagnostic that lists the whole catalog
AvailableToolsShown_all(catalog) == catalog

\* ', '.join(available_tools[:10]): the names listed for an unknown tool
AvailableToolsShown(catalog) ==
    SubSeq(catalog, 1,
           IF Len(catalog) < ListedNamesCap THEN Len(catalog)
           ELSE ListedNamesCap)

\* the record appended for a tool name that is not in the catalog
NotFoundRecord(call, catalog) ==
    [ToolRecord(call, FALSE, "error:not_found")
        EXCEPT !.listed = AvailableToolsShown(catalog)]

\* the record appended for a returned value r (first attempt or retry)
ReturnRecord(e, call, r, isRetry) ==
    LET v == PostProcess(e, r)
    IN  IF v = "none"
        THEN ToolRecord(call, FALSE,
                 IF e = "clickup" /\ ~isRetry THEN "error:none_first"
                 ELSE "error:none")
        ELSE ToolRecord(call, TRUE, v)

\* one scripted tool call: the first attempt, and what the recovery does
Script(first, init, retry) == [first |-> first, init |-> init, retry |-> retry]

RetryOutcomes == { "data", "empty_str", "none", "closed", "other" }

ScriptPool ==
    { Script(f, "full", "data") : f \in Returns \cup { "other", "mention" } }
      \cup { Script("closed", i, "data") : i \in InitOutcomes }
      \cup { Script("closed", "full", r) : r \in RetryOutcomes }

\* scripts of the second call of a two-call assistant turn
SecondScriptPool ==
    { Script("data", "full", "data"), Script("none", "full", "data"),
      Script("other", "full", "data"), Script("closed", "full", "data") }

IdleScript == Script("data", "full", "data")

LogEntry(op, idx, call, out) ==
    [op |-> op, idx |-> idx, name |-> call.name, args |-> call.args, out |-> out]

Contains(catalog, name) == \E i \in 1..Len(catalog) : catalog[i] = name

\* the session-fault handler of Act for one call (lines 229-281)
Recover(e, mcp, call, idx, sc, acc) ==
    IF ~mcp THEN acc
    ELSE
    LET c1 == CloseClient(acc.client)
        c2 == InitializeClient(c1, sc.init)
        log1 == acc.log \o << LogEntry("close", idx, call, "-"),
                              LogEntry("initialize", idx, call, sc.init) >>
        failed == ToolRecord(call, FALSE, "error:retry_failed")
    IN  IF InitRaises(c1, sc.init)
        THEN [acc EXCEPT !.client = c2, !.log = log1,
                         !.results = acc.results \o << failed >>]
        ELSE
        LET bt == GetTools(c2)
            log2 == log1 \o << LogEntry("get_tools", idx, call, "-") >>
            log3 == log2 \o << LogEntry("invoke", idx, call, sc.retry) >>
        IN  IF ~Contains(bt, call.name)
            THEN [client |-> c2, tools |-> bt, log |-> log2,
                  results |-> acc.results \o << failed >>]
            ELSE IF sc.retry \in Returns
            THEN [client |-> c2, tools |-> bt, log |-> log3,
                  results |-> acc.results
                                \o << ReturnRecord(e, call, sc.retry, TRUE) >>]
            ELSE [client |-> c2, tools |-> bt, log |-> log3,
                  results |-> acc.results \o << failed >>]

\* one iteration of the tool-call loop of Act (lines 177-316)
RunCall(e, mcp, call, idx, sc, acc) ==
    IF call.id = "" THEN acc
    ELSE IF ~Contains(acc.tools, call.name)
    THEN [acc EXCEPT !.results =
              acc.results \o << NotFoundRecord(call, acc.tools) >>]
    ELSE
    LET acc1 == [acc EXCEPT !.log =
                     acc.log \o << LogEntry("invoke", idx, call, sc.first) >>]
    IN  IF sc.first \in Returns
        THEN [acc1 EXCEPT !.results =
                  acc.results \o << ReturnRecord(e, call, sc.first, FALSE) >>]
        ELSE IF IsSessionClosedFault(sc.first)
        THEN Recover(e, mcp, call, idx, sc, acc1)
        ELSE [acc1 EXCEPT !.results =
                  acc.results \o << ToolRecord(call, FALSE, "error:fault") >>]

RECURSIVE RunCalls(_, _, _, _, _, _)
RunCalls(e, mcp, calls, idx, scripts, acc) ==
    IF idx > Len(calls) THEN acc
    ELSE RunCalls(e, mcp, calls, idx + 1, scripts,
                  RunCall(e, mcp, calls[idx], idx, scripts[idx], acc))

\* records written when the health check of Act raises (lines 156-167)
RECURSIVE SessionFailRecords(_)
SessionFailRecords(calls) ==
    IF calls = << >> THEN << >>
    ELSE << [tool |-> Head(calls).name, args |-> "{}",
             tool_call_id |-> Head(calls).id, success |-> FALSE,
             kind |-> "error:session_init", listed |-> << >>] >>
         \o SessionFailRecords(Tail(calls))

\* the scripts the environment may play against a list of tool calls; calls
\* that are never invoked get the idle script
Invoked(call) == call.id # ""

ScriptSeqs(calls) ==
    IF Len(calls) = 0 THEN { << >> }
    ELSE IF Len(calls) = 1
    THEN { << s >> : s \in (IF Invoked(calls[1]) THEN ScriptPool ELSE { IdleScript }) }
    ELSE { << s, t >> :
             s \in (IF Invoked(calls[1]) THEN ScriptPool ELSE { IdleScript }),
             t \in (IF Invoked(calls[2]) THEN SecondScriptPool ELSE { IdleScript }) }

\* scripts of a run in which every tool call returns: data or a null result
ExhaustScripts(calls) ==
    { << s >> : s \in { Script("data", "full", "data"),
                        Script("none", "full", "data") } }

\* scripts of a run in which a tool call returns data or raises
TurnsScripts(calls) ==
    IF Len(calls) = 0 THEN { << >> }
    ELSE { << s >> : s \in { Script("data", "full", "data"),
                             Script("other", "full", "data") } }

\* scripts of a streamed run: a call returns data, raises, or loses the
\* session once and is retried
ChatScriptPool ==
    { Script("data", "full", "data"), Script("other", "full", "data"),
      Script("closed", "full", "data") }

ChatScripts(calls) ==
    IF Len(calls) = 0 THEN { << >> }
    ELSE IF Len(calls) = 1 THEN { << s >> : s \in ChatScriptPool }
    ELSE { << s, IdleScript >> : s \in ChatScriptPool }

\* the tool behaviours a run is explored against
ScriptsFor(env, calls) ==
    IF env = "exhaust" THEN ExhaustScripts(calls)
    ELSE IF env = "turns" THEN TurnsScripts(calls)
    ELSE IF env = "chat" THEN ChatScripts(calls)
    ELSE ScriptSeqs(calls)

-----------------------------------------------------------------------------
(* Observe *)

IsToolMessage(m) == m.role = "tool"

\* ids of the ToolMessages already in messages
ExistingToolMessageIds(msgs) ==
    { msgs[i].id : i \in { j \in 1..Len(msgs) : IsToolMessage(msgs[j]) } }

\* position of the most recent AIMessage that carries tool calls, 0 if none
LastCallingAI(msgs) ==
    LET idxs == { i \in 1..Len(msgs) :
                    msgs[i].role = "ai" /\ msgs[i].calls # NoCalls }
    IN  IF idxs = {} THEN 0 ELSE CHOOSE i \in idxs : \A j \in idxs : j <= i

\* non-empty call ids of the most recent AIMessage with tool calls
CurrentToolCallIds(msgs) ==
    LET k == LastCallingAI(msgs)
    IN  IF k = 0 THEN {}
        ELSE { msgs[k].calls[i].id : i \in 1..Len(msgs[k].calls) } \ { "" }

\* variant: ids that already have a ToolMessage are not filtered out
ValidToolCallIds_unfiltered(msgs) == CurrentToolCallIds(msgs)

ValidToolCallIds(msgs) ==
    CurrentToolCallIds(msgs) \ ExistingToolMessageIds(msgs)

\* tool_history entries that are not (by value) in processed_tools
RecentTools(th, processed) ==
    SelectSeq(th, LAMBDA t : t \notin SeqToSet(processed))

NoRecord == [tool |-> "", args |-> "", tool_call_id |-> "", success |-> FALSE,
             kind |-> "absent", listed |-> << >>]

\* tool_results_by_id.get(id): the last recent record with that id wins
ResultById(recent, id) ==
    LET idxs == { i \in 1..Len(recent) : recent[i].tool_call_id = id }
    IN  IF idxs = {} THEN NoRecord
        ELSE recent[CHOOSE i \in idxs : \A j \in idxs : j <= i]

\* summarize_tool_result raises on a payload whose fields have the wrong shape
SummaryRaises(rec) == rec.success /\ rec.kind = "bad_shape"

\* variant: every id gets the placeholder
ObservationFor_placeholder(recent, id) == ToolMessage(id, "not_executed", "")

ObservationFor(recent, id) ==
    LET rec == ResultById(recent, id)
    IN  IF rec = NoRecord THEN ToolMessage(id, "not_executed", "")
        ELSE IF rec.success THEN ToolMessage(id, "summary", rec.tool)
        ELSE ToolMessage(id, "failure", rec.tool)

\* the orders in which the set valid_tool_call_ids may be iterated
Orders(S) ==
    { o \in [1..Cardinality(S) -> S] :
        \A i, j \in 1..Cardinality(S) : i # j => o[i] # o[j] }

\* an Observe that answers with an assistant turn
ObserveAppend_assistant(msgs, th, processed, order) == << AIMessage(NoCalls) >>

\* messages appended by one run of Observe on (msgs, th, processed)
ObserveAppend(msgs, th, processed, order) ==
    LET recent == RecentTools(th, processed)
    IN  [i \in 1..Len(order) |-> ObservationFor(recent, order[i])]

\* records marked processed by one run of Observe
ObserveProcessed(th, processed, order) ==
    LET recent == RecentTools(th, processed)
        hit == SelectSeq(order, LAMBDA id : ResultById(recent, id) # NoRecord)
    IN  processed \o [i \in 1..Len(hit) |-> ResultById(recent, hit[i])]

ObserveRaisesOn(msgs, th, processed) ==
    \E id \in ValidToolCallIds(msgs) :
        SummaryRaises(ResultById(RecentTools(th, processed), id))

ObservationCount(msgs, th, processed) ==
    LET recent == RecentTools(th, processed)
    IN  Cardinality({ i \in 1..Len(recent) :
                        recent[i].tool_call_id \in ValidToolCallIds(msgs) })

-----------------------------------------------------------------------------
(* Execution log entries *)

Log(node, iteration, key, value) ==
    [node |-> node, iteration |-> iteration, key |-> key, value |-> value]

-----------------------------------------------------------------------------
(* Graph nodes *)

\* _reason_node with a model that streams an assistant turn carrying `calls`,
\* followed by the conditional edge
ReasonRespond(pool) ==
    /\ pc = REASON
    /\ CanStep
    /\ \E calls \in pool :
         /\ messages' = Append(messages, AIMessage(calls))
         /\ is_final_answer' = (calls = NoCalls)
         /\ execution_logs' = Append(execution_logs,
                Log(REASON, current_iteration + 1, "has_tool_calls",
                    IF calls # NoCalls THEN 1 ELSE 0))
         /\ pc' = should_continue(current_iteration + 1, max_iterations,
                                  calls = NoCalls)
    /\ node_sequence' = Append(node_sequence, REASON)
    /\ current_iteration' = current_iteration + 1
    /\ UNCHANGED << result, engine, mcp_client, max_iterations, tool_history,
                    processed_tools, fault, client, tools, gateway_log, turn >>
    /\ UNCHANGED << streamVars, otherVars >>

\* _reason_node with a model whose stream carries no chunk: final_response
\* stays None, nothing is appended and is_final_answer keeps its value
ReasonEmpty ==
    /\ pc = REASON
    /\ CanStep
    /\ node_sequence' = Append(node_sequence, REASON)
    /\ current_iteration' = current_iteration + 1
    /\ pc' = should_continue(current_iteration + 1, max_iterations,
                             is_final_answer)
    /\ UNCHANGED << result, engine, mcp_client, max_iterations, messages,
                    execution_logs, is_final_answer, tool_history,
                    processed_tools, fault, client, tools, gateway_log, turn >>
    /\ UNCHANGED << streamVars, otherVars >>

\* _reason_node with a model call that raises: the run ends with the fault
ReasonFault ==
    /\ pc = REASON
    /\ CanStep
    /\ pc' = "raised"
    /\ fault' = "model"
    /\ UNCHANGED << result, engine, mcp_client, max_iterations, messages,
                    node_sequence, execution_logs, current_iteration,
                    tool_history, processed_tools, is_final_answer, client,
                    tools, gateway_log, turn >>
    /\ UNCHANGED << streamVars, otherVars >>

\* _act_node when ensure_session raises (lines 141-168)
ActHealthFail(probes, outs) ==
    /\ pc = ACT
    /\ CanStep
    /\ mcp_client
    /\ \E probe \in probes, out1 \in outs, out2 \in outs :
         LET ens == EnsureSession(engine, client, probe, out1, out2)
         IN  /\ ens.raised
             /\ client' = ens.client
    /\ node_sequence' = Append(node_sequence, ACT)
    /\ execution_logs' = Append(execution_logs,
           Log(ACT, current_iteration, "error", 1))
    /\ tool_history' = tool_history
                         \o SessionFailRecords(ToolCallsOf(Last(messages)))
    /\ gateway_log' = << >>
    /\ pc' = OBSERVE
    /\ UNCHANGED << result, engine, mcp_client, max_iterations, messages,
                    current_iteration, processed_tools, is_final_answer,
                    fault, tools, turn >>
    /\ UNCHANGED << streamVars, otherVars >>

\* _act_node when the health check passes (or there is no client): the
\* tool-call loop, then the history and log update (lines 170-328)
ActRun(probes, outs, env) ==
    /\ pc = ACT
    /\ CanStep
    /\ \E probe \in probes, out1 \in outs, out2 \in outs :
         LET ens == IF mcp_client
                    THEN EnsureSession(engine, client, probe, out1, out2)
                    ELSE [client |-> client, raised |-> FALSE]
             calls == ToolCallsOf(Last(messages))
         IN  /\ ~ens.raised
             /\ \E scripts \in ScriptsFor(env, calls) :
                  LET res == RunCalls(engine, mcp_client, calls, 1, scripts,
                                 [client |-> ens.client, tools |-> tools,
                                  log |-> << >>, results |-> << >>])
                  IN  /\ client' = res.client
                      /\ tools' = res.tools
                      /\ gateway_log' = res.log
                      /\ tool_history' = tool_history \o res.results
                      /\ execution_logs' = Append(execution_logs,
                             Log(ACT, current_iteration, "tools_executed",
                                 Len(res.results)))
    /\ node_sequence' = Append(node_sequence, ACT)
    /\ pc' = OBSERVE
    /\ UNCHANGED << result, engine, mcp_client, max_iterations, messages,
                    current_iteration, processed_tools, is_final_answer,
                    fault, turn >>
    /\ UNCHANGED << streamVars, otherVars >>

\* _observe_node
Observe ==
    /\ pc = OBSERVE
    /\ CanStep
    /\ ~ObserveRaisesOn(messages, tool_history, processed_tools)
    /\ \E order \in Orders(ValidToolCallIds(messages)) :
         /\ messages' = messages
                \o ObserveAppend(messages, tool_history, processed_tools, order)
         /\ processed_tools' =
                IF engine = "notion"
                THEN ObserveProcessed(tool_history, processed_tools, order)
                ELSE processed_tools
    /\ node_sequence' = Append(node_sequence, OBSERVE)
    /\ execution_logs' = Append(execution_logs,
           Log(OBSERVE, current_iteration, "observations",
               ObservationCount(messages, tool_history, processed_tools)))
    /\ pc' = REASON
    /\ UNCHANGED << result, engine, mcp_client, max_iterations, current_iteration,
                    tool_history, is_final_answer, fault, client, tools,
                    gateway_log, turn >>
    /\ UNCHANGED << streamVars, otherVars >>

\* _observe_node when summarize_tool_result raises: the run ends with the fault
ObserveRaise ==
    /\ pc = OBSERVE
    /\ CanStep
    /\ ObserveRaisesOn(messages, tool_history, processed_tools)
    /\ pc' = "raised"
    /\ fault' = "summarizer"
    /\ UNCHANGED << result, engine, mcp_client, max_iterations, messages,
                    node_sequence, execution_logs, current_iteration,
                    tool_history, processed_tools, is_final_answer, client,
                    tools, gateway_log, turn >>
    /\ UNCHANGED << streamVars, otherVars >>

\* _finalize_node, then the edge to END
Finalize ==
    /\ pc = FINALIZE
    /\ CanStep
    /\ node_sequence' = Append(node_sequence, FINALIZE)
    /\ execution_logs' = Append(execution_logs,
           Log(FINALIZE, current_iteration, "total_tools_used",
               Len(tool_history)))
    /\ pc' = "end"
    /\ UNCHANGED << result, engine, mcp_client, max_iterations, messages,
                    current_iteration, tool_history, processed_tools,
                    is_final_answer, fault, client, tools, gateway_log, turn >>
    /\ UNCHANGED << streamVars, otherVars >>

\* chat: the answer is read from final_state["messages"][-1]
ChatAnswerMessage(msgs) == msgs[Len(msgs)]

\* the graph framework ends the run with GraphRecursionError when a node is
\* due and the step limit of the run config is used up
RecursionError ==
    /\ pc \in { REASON, ACT, OBSERVE, FINALIZE }
    /\ ~CanStep
    /\ pc' = "raised"
    /\ fault' = "recursion"
    /\ UNCHANGED << result, engine, mcp_client, max_iterations, messages,
                    node_sequence, execution_logs, current_iteration,
                    tool_history, processed_tools, is_final_answer, client,
                    tools, gateway_log, turn >>
    /\ UNCHANGED << streamVars, otherVars >>

-----------------------------------------------------------------------------
(* A chat turn: the seeded state of chat / stream_chat *)

Engines == { "clickup", "notion" }

\* no supervisor workflow has been built
NoSupervisor ==
    [catalog |-> << >>, source |-> << >>, reader |-> << >>, writer |-> << >>,
     last |-> [agent |-> "", name |-> "", invoked |-> FALSE]]

\* one transport and session (number 1) opened by the agent's initialize
OneSession ==
    [next |-> 2, sessionGen |-> 1, stdioGen |-> 1, toolsGen |-> 1,
     builderGen |-> 1, rw |-> TRUE, status |-> << "live" >>]

\* a checkpoint store without an entry for the conversation id
NoCheckpoint == [owner |-> 0, node_sequence |-> << >>]

OtherIdle ==
    /\ supervisor = NoSupervisor
    /\ sessions = OneSession
    /\ conv = << >>
    /\ checkpoint = NoCheckpoint

StreamIdle ==
    /\ site = "none"
    /\ sse = << >>
    /\ gen = [at |-> "idle", consumed |-> 0, cause |-> ""]

\* initial_state of chat / stream_chat on a conversation without history
SeedState ==
    /\ messages = << HumanMessage >>
    /\ node_sequence = << >>
    /\ execution_logs = << >>
    /\ current_iteration = 0
    /\ tool_history = << >>
    /\ processed_tools = << >>
    /\ is_final_answer = FALSE
    /\ pc = REASON
    /\ fault = ""
    /\ gateway_log = << >>
    /\ turn = 1
    /\ result = << >>
    /\ OtherIdle

\* the engine built by the agent (client active, catalog loaded), or a graph
\* builder constructed without a session client
Init ==
    /\ engine \in Engines
    /\ mcp_client \in BOOLEAN
    /\ max_iterations \in 0..MaxIter
    /\ client = IF mcp_client THEN ActiveClient(FullCatalog) ELSE NewClient
    /\ tools = FullCatalog
    /\ SeedState
    /\ StreamIdle

Probes == { "healthy", "dead" }

Next ==
    \/ ReasonRespond(ResponsePool)
    \/ ReasonEmpty
    \/ ReasonFault
    \/ ActHealthFail(Probes, InitOutcomes)
    \/ ActRun(Probes, InitOutcomes, "any")
    \/ Observe
    \/ ObserveRaise
    \/ Finalize

Spec == Init /\ [][Next]_vars

-----------------------------------------------------------------------------
(* Iteration exhaustion: a model that requests a tool in every Reason step *)

ExhaustIds ==
    << "c1", "c2", "c3", "c4", "c5", "c6", "c7", "c8", "c9", "c10", "c11" >>

\* the single tool call of the Reason step that is due
ExhaustPool ==
    { << [id |-> ExhaustIds[current_iteration + 1], name |-> "get_spaces",
          args |-> "p"] >> }

InitExhaust ==
    /\ engine \in Engines
    /\ mcp_client = TRUE
    /\ max_iterations \in 1..DefaultMaxIterations
    /\ client = ActiveClient(FullCatalog)
    /\ tools = FullCatalog
    /\ SeedState
    /\ StreamIdle

NextExhaust ==
    \/ ReasonRespond(ExhaustPool)
    \/ ActRun({ "healthy" }, { "full" }, "exhaust")
    \/ Observe
    \/ Finalize
    \/ RecursionError

SpecExhaust == InitExhaust /\ [][NextExhaust]_vars

-----------------------------------------------------------------------------
(* Several turns of one conversation *)

TurnsResponsePool == { NoCalls, << CallA >>, << CallB >> }

\* chat / stream_chat on a conversation that already ran a turn.  The agent
\* re-initializes when the client lost its session; the ClickUp agent seeds
\* the new HumanMessage alone, the Notion agent the checkpointed history
\* followed by it.
StartTurn(outs) ==
    /\ pc \in { "end", "raised" }
    /\ turn < MaxTurns
    /\ \E out \in outs :
         /\ ~InitRaises(client, out)
         /\ client' = IF client.initialized THEN client
                      ELSE InitializeClient(client, out)
         /\ tools' = IF client.initialized THEN tools ELSE GetTools(client')
    /\ messages' = IF engine = "notion" THEN Append(messages, HumanMessage)
                   ELSE << HumanMessage >>
    /\ node_sequence' = << >>
    /\ execution_logs' = << >>
    /\ current_iteration' = 0
    /\ tool_history' = << >>
    /\ processed_tools' = << >>
    /\ is_final_answer' = FALSE
    /\ pc' = REASON
    /\ fault' = ""
    /\ gateway_log' = << >>
    /\ turn' = turn + 1
    /\ UNCHANGED << result, engine, mcp_client, max_iterations >>
    /\ UNCHANGED << streamVars, otherVars >>

InitTurns ==
    /\ engine \in Engines
    /\ mcp_client = TRUE
    /\ max_iterations \in 1..MaxTurnIter
    /\ client = ActiveClient(FullCatalog)
    /\ tools = FullCatalog
    /\ SeedState
    /\ StreamIdle

NextTurns ==
    \/ ReasonRespond(TurnsResponsePool)
    \/ ReasonEmpty
    \/ ReasonFault
    \/ ActRun({ "healthy" }, { "full" }, "turns")
    \/ Observe
    \/ Finalize
    \/ StartTurn({ "full" })

SpecTurns == InitTurns /\ [][NextTurns]_vars

-----------------------------------------------------------------------------
(* chat/stream endpoints: the SSE generators *)

Sites == { "clickup", "notion", "supervisor" }

\* events of the graph framework's event stream, as far as the translators
\* tell them apart: start / end of a tracked node (a graph node of the
\* engines, an agent of the supervisor), start of anything else, a model
\* chunk with or without text, a tool start / end
LibEvents ==
    { "node_start", "other_start", "reason_end", "act_end_0", "act_end_1",
      "node_end", "model_text", "model_blank", "tool_start", "tool_end" }

\* the loop body of ClickUpAgent.stream_chat / NotionAgent.stream_chat
TranslateEngine(ev) ==
    IF ev = "model_text" THEN << "message_chunk" >>
    ELSE IF ev = "node_start" THEN << "node_start" >>
    ELSE IF ev = "node_end" THEN << "node_end" >>
    ELSE IF ev = "act_end_0" THEN << "node_end" >>
    ELSE IF ev = "act_end_1" THEN << "node_end", "tool_result" >>
    ELSE IF ev = "reason_end" THEN << "node_end", "REASON_END" >>
    ELSE << >>

\* the loop body of chat_stream.event_generator
TranslateSupervisor(ev) ==
    IF ev = "node_start" THEN << "node_start" >>
    ELSE IF ev = "model_text" THEN << "message_chunk" >>
    ELSE IF ev = "tool_start" THEN << "tool_start" >>
    ELSE IF ev = "tool_end" THEN << "tool_result" >>
    ELSE IF ev \in { "node_end", "reason_end", "act_end_0", "act_end_1" }
         THEN << "node_end" >>
    ELSE << >>

Translate(s, ev) ==
    IF s = "supervisor" THEN TranslateSupervisor(ev) ELSE TranslateEngine(ev)

DONE == "[DONE]"

\* what the generator writes when its body ends: generate() of the engine
\* endpoints has a finally clause, event_generator has none
EndMarker(s) == IF s = "supervisor" THEN << >> ELSE << DONE >>

\* phases after the final event in which a fault can still escape: the
\* ClickUp agent only saves the chat (swallowed), the Notion agent flushes
\* its tracer, the supervisor endpoint saves the chat and flushes
PostFinalCanRaise(s) == s \in { "notion", "supervisor" }

\* what can raise inside the try block of the generator, by phase:
\*   setup  agent / supervisor construction ("setup"); the engine agents also
\*          call chat_handler.ensure_session_exists, unguarded ("persist_pre")
\*   loop   the graph run, the translation, building the final event ("run")
\*   post   the Notion agent flushes its tracer ("flush"); the supervisor
\*          endpoint creates the session, saves the chat ("persist_post") and
\*          flushes ("flush"); the save of the engine agents is guarded
RaiseCauses(s, at) ==
    IF at = "setup"
    THEN (IF s = "supervisor" THEN { "setup" } ELSE { "setup", "persist_pre" })
    ELSE IF at = "loop" THEN { "run" }
    ELSE IF s = "notion" THEN { "flush" }
    ELSE IF s = "supervisor" THEN { "persist_post", "flush" }
    ELSE {}

\* agent set-up, session bookkeeping and run configuration succeed
StreamBegin ==
    /\ gen.at = "setup"
    /\ gen' = [gen EXCEPT !.at = "loop"]
    /\ UNCHANGED << site, sse >>
    /\ UNCHANGED << engineVars, otherVars >>

\* one event of the framework's stream is translated and written
StreamEvent ==
    /\ gen.at = "loop"
    /\ gen.consumed < MaxEvents
    /\ \E ev \in LibEvents : sse' = sse \o Translate(site, ev)
    /\ gen' = [gen EXCEPT !.consumed = gen.consumed + 1]
    /\ UNCHANGED site
    /\ UNCHANGED << engineVars, otherVars >>

\* the framework's stream ends; the final event is built and written
StreamFinal ==
    /\ gen.at = "loop"
    /\ sse' = Append(sse, "final")
    /\ gen' = [gen EXCEPT !.at = "post"]
    /\ UNCHANGED site
    /\ UNCHANGED << engineVars, otherVars >>

\* the work after the final event completes and the generator body ends
StreamFinish ==
    /\ gen.at = "post"
    /\ sse' = sse \o EndMarker(site)
    /\ gen' = [gen EXCEPT !.at = "closed"]
    /\ UNCHANGED site
    /\ UNCHANGED << engineVars, otherVars >>

\* the engine agents save the chat after the final event inside a try whose
\* handler only prints: a fault of the save leaves the stream as it is
StreamSaveFault ==
    /\ gen.at = "post"
    /\ site \in { "clickup", "notion" }
    /\ gen.cause = ""
    /\ gen' = [gen EXCEPT !.cause = "save_swallowed"]
    /\ UNCHANGED << site, sse >>
    /\ UNCHANGED << engineVars, otherVars >>

\* variant: the handler writes the error event and the generator carries on
StreamRaise_resume ==
    /\ \/ gen.at \in { "setup", "loop" }
       \/ gen.at = "post" /\ PostFinalCanRaise(site)
    /\ Len(sse) < MaxEvents + 3
    /\ sse' = Append(sse, "error")
    /\ \E c \in RaiseCauses(site, gen.at) : gen' = [gen EXCEPT !.cause = c]
    /\ UNCHANGED site
    /\ UNCHANGED << engineVars, otherVars >>

\* an exception escapes inside the try block: the handler writes one error
\* event and the generator body ends
StreamRaise ==
    /\ \/ gen.at \in { "setup", "loop" }
       \/ gen.at = "post" /\ PostFinalCanRaise(site)
    /\ sse' = Append(sse, "error") \o EndMarker(site)
    /\ \E c \in RaiseCauses(site, gen.at) :
         gen' = [gen EXCEPT !.at = "closed", !.cause = c]
    /\ UNCHANGED site
    /\ UNCHANGED << engineVars, otherVars >>

InitStream ==
    /\ site \in Sites
    /\ sse = << >>
    /\ gen = [at |-> "setup", consumed |-> 0, cause |-> ""]
    /\ engine = IF site = "notion" THEN "notion" ELSE "clickup"
    /\ mcp_client = TRUE
    /\ max_iterations = DefaultMaxIterations
    /\ client = ActiveClient(FullCatalog)
    /\ tools = FullCatalog
    /\ SeedState

NextStream ==
    \/ StreamBegin
    \/ StreamEvent
    \/ StreamFinal
    \/ StreamFinish
    \/ StreamSaveFault
    \/ StreamRaise

SpecStream == InitStream /\ [][NextStream]_vars

-----------------------------------------------------------------------------
(* stream_chat of the engine agents: the graph run and its translation *)

\* events yielded by stream_chat; -1 stands for a key the event lacks
NodeStartEvent(node) ==
    [type |-> "node_start", node |-> node, iteration |-> -1, data |-> << >>]

MessageChunkEvent(current_node) ==
    [type |-> "message_chunk",
     node |-> IF current_node = "" THEN REASON ELSE current_node,
     iteration |-> -1, data |-> << >>]

NodeEndEvent(node, iteration) ==
    [type |-> "node_end", node |-> node, iteration |-> iteration, data |-> << >>]

ToolResultEvent(node, iteration, rec) ==
    [type |-> "tool_result", node |-> node, iteration |-> iteration,
     data |-> << rec.tool, rec.args, rec.success >>]

ReasonEndEvent(final) ==
    [type |-> "REASON_END", node |-> REASON, iteration |-> -1,
     data |-> << final >>]

\* tool_names / unique_tools / FinalEvent.create on the checkpointed values
FinalEvent(ns, th, iteration) ==
    [type |-> "final", node |-> FINALIZE, iteration |-> iteration,
     data |-> << ns, { th[i].tool : i \in 1..Len(th) }, Len(th) >>]

ErrorEvent ==
    [type |-> "error", node |-> "", iteration |-> -1, data |-> << >>]

DoneMarker ==
    [type |-> DONE, node |-> "", iteration |-> -1, data |-> << >>]

\* variant: every Act exit reports the whole tool_history
RecentRecords_all(th, last) == th

\* new_tool_history[last_tool_history_len:]
RecentRecords(th, last) == SubSeq(th, last + 1, Len(th))

\* variant: the tool results are written before the node_end event
NodeEndEvents_early(node, iteration, recent, final) ==
    IF node = ACT
    THEN [i \in 1..Len(recent) |-> ToolResultEvent(node, iteration, recent[i])]
         \o << NodeEndEvent(node, iteration) >>
    ELSE IF node = REASON
    THEN << NodeEndEvent(node, iteration), ReasonEndEvent(final) >>
    ELSE << NodeEndEvent(node, iteration) >>

\* the on_chain_end branch of the event loop
NodeEndEvents(node, iteration, recent, final) ==
    IF node = ACT
    THEN << NodeEndEvent(node, iteration) >>
         \o [i \in 1..Len(recent) |-> ToolResultEvent(node, iteration, recent[i])]
    ELSE IF node = REASON
    THEN << NodeEndEvent(node, iteration), ReasonEndEvent(final) >>
    ELSE << NodeEndEvent(node, iteration) >>

\* chunks with text streamed while Reason runs
ChunkEvents(node, n) ==
    IF node = REASON THEN [i \in 1..n |-> MessageChunkEvent(node)] ELSE << >>

\* the translator has consumed the events of every node that has run
ChatSynced == gen.at = "loop" /\ gen.consumed = Len(node_sequence)

ChatResponsePool == { NoCalls, << CallA >>, << CallA, CallB >>, << CallG >> }

\* the graph runs its next node
ChatStep ==
    /\ ChatSynced
    /\ \/ ReasonRespond(ChatResponsePool)
       \/ ReasonFault
       \/ ActHealthFail({ "dead" }, { "fail_session" })
       \/ ActRun({ "healthy" }, { "full" }, "chat")
       \/ Observe
       \/ Finalize

\* the event loop consumes the events of the node that has just run: its
\* on_chain_start, the model chunks, its on_chain_end
ChatTranslate ==
    /\ gen.at = "loop"
    /\ gen.consumed < Len(node_sequence)
    /\ LET node == node_sequence[gen.consumed + 1]
           recent == RecentRecords(tool_history, gen.last_tool_history_len)
       IN  /\ \E n \in 0..MaxChunks :
                sse' = sse \o << NodeStartEvent(node) >> \o ChunkEvents(node, n)
                           \o NodeEndEvents(node, current_iteration, recent,
                                            is_final_answer)
           /\ gen' = [gen EXCEPT
                        !.consumed = gen.consumed + 1,
                        !.current_node = node,
                        !.last_tool_history_len =
                            IF node = ACT THEN Len(tool_history)
                            ELSE gen.last_tool_history_len]
    /\ UNCHANGED site
    /\ UNCHANGED << engineVars, otherVars >>

\* the model call raised inside Reason: its on_chain_start was consumed, the
\* fault leaves stream_chat, generate() writes the error event and the marker
ChatRaise ==
    /\ ChatSynced
    /\ pc = "raised"
    /\ sse' = sse \o << NodeStartEvent(REASON), ErrorEvent, DoneMarker >>
    /\ gen' = [gen EXCEPT !.at = "closed", !.cause = "run",
                          !.current_node = REASON]
    /\ UNCHANGED site
    /\ UNCHANGED << engineVars, otherVars >>

\* the run has ended: the final event is built from the checkpointed state
ChatFinal ==
    /\ ChatSynced
    /\ pc = "end"
    /\ sse' = Append(sse, FinalEvent(node_sequence, tool_history,
                                     current_iteration))
    /\ gen' = [gen EXCEPT !.at = "post"]
    /\ UNCHANGED site
    /\ UNCHANGED << engineVars, otherVars >>

\* the chat is saved and generate() writes the marker
ChatFinish ==
    /\ gen.at = "post"
    /\ sse' = Append(sse, DoneMarker)
    /\ gen' = [gen EXCEPT !.at = "closed"]
    /\ UNCHANGED site
    /\ UNCHANGED << engineVars, otherVars >>

InitChat ==
    /\ engine \in Engines
    /\ mcp_client = TRUE
    /\ max_iterations \in 1..MaxChatIter
    /\ client = ActiveClient(FullCatalog)
    /\ tools = FullCatalog
    /\ SeedState
    /\ site = engine
    /\ sse = << >>
    /\ gen = [at |-> "loop", consumed |-> 0, cause |-> "",
              last_tool_history_len |-> 0, current_node |-> ""]

NextChat ==
    \/ ChatStep
    \/ ChatTranslate
    \/ ChatRaise
    \/ ChatFinal
    \/ ChatFinish

SpecChat == InitChat /\ [][NextChat]_vars

-----------------------------------------------------------------------------
(* tool_result_processor: normalisation of a tool result, value by value *)

\* A tool result.  kind is "none", "num", "str", "json" (a string whose text is
\* the JSON document of sub[1]), "dict" (one key, value sub[1]) or "list"
\* (items sub).  A "str" is the text of lc copies of "lc_" followed by body:
\* "hex" an id of hexadecimal letters, "digits" an id of digits, "word" a
\* word with other letters, "empty" nothing, "notice" the blank-result text.
Val(kind, lc, body, key, sub) ==
    [kind |-> kind, lc |-> lc, body |-> body, key |-> key, sub |-> sub]

NoneVal == Val("none", 0, "", "", << >>)
NumVal == Val("num", 0, "digits", "", << >>)
StrVal(lc, body) == Val("str", lc, body, "", << >>)
JsonVal(v) == Val("json", 0, "", "", << v >>)
DictVal(key, v) == Val("dict", 0, "", key, << v >>)
ListVal(items) == Val("list", 0, "", "", items)

BlankNotice == StrVal(0, "notice")

IsString(v) == v.kind \in { "str", "json" }

\* not result.strip()
IsBlank(v) == v.kind = "str" /\ v.lc = 0 /\ v.body = "empty"

\* value.startswith('lc_'): a JSON document starts with a bracket, a quote
\* or a letter of null
StartsWithLc(v) == v.kind = "str" /\ v.lc >= 1

\* re.sub(r'\blc_([a-f0-9-]+)\b', r'\1', text) on one string: the only place
\* with a word boundary in front of "lc_" is the start of the string, and the
\* pattern needs hexadecimal characters right after that prefix
RegexSubLeaf(v) ==
    IF v.lc = 1 /\ v.body \in { "hex", "digits" }
    THEN [v EXCEPT !.lc = 0] ELSE v

\* the same substitution on the text of a JSON document: it reaches every
\* string of the document, each of which stands between quotes
RECURSIVE RegexSubInside(_)
RegexSubInside(v) ==
    IF v.kind = "str" THEN RegexSubLeaf(v)
    ELSE [v EXCEPT !.sub = [i \in 1..Len(v.sub) |-> RegexSubInside(v.sub[i])]]

RegexSub(v) == IF v.kind = "str" THEN RegexSubLeaf(v) ELSE RegexSubInside(v)

\* json.loads(text) succeeds on a JSON document and on a string of digits
JsonParses(v) ==
    v.kind = "json" \/ (v.kind = "str" /\ v.lc = 0 /\ v.body = "digits")

JsonLoads(v) == IF v.kind = "json" THEN v.sub[1] ELSE NumVal

\* json.dumps(value): a number is written as its digits
JsonDumps(v) == IF v.kind = "num" THEN StrVal(0, "digits") ELSE JsonVal(v)

RECURSIVE ExtractClickupIds(_)
process_string_result(text) ==
    LET t == RegexSub(text)
    IN  IF JsonParses(t) THEN JsonDumps(ExtractClickupIds(JsonLoads(t))) ELSE t

process_dict_result(data) ==
    LET value == data.sub[1]
        v2 == IF data.key = "id" /\ IsString(value) /\ StartsWithLc(value)
              THEN [value EXCEPT !.lc = value.lc - 1] ELSE value
    IN  DictVal(data.key, ExtractClickupIds(v2))

ExtractClickupIds(v) ==
    IF v.kind = "none" THEN NoneVal
    ELSE IF IsBlank(v) THEN BlankNotice
    ELSE IF IsString(v) THEN process_string_result(v)
    ELSE IF v.kind = "dict" THEN process_dict_result(v)
    ELSE IF v.kind = "list"
         THEN IF v.sub = << >> THEN ListVal(<< >>)
              ELSE ListVal([i \in 1..Len(v.sub) |-> ExtractClickupIds(v.sub[i])])
    ELSE v

StringBodies == { "hex", "digits", "word", "empty" }

Scalars ==
    { NoneVal, NumVal } \cup
    { StrVal(n, b) : n \in 0..MaxPrefix, b \in StringBodies }

\* the text of a number's JSON document is the string of its digits
Embeddable(v) == v.kind # "num"

RECURSIVE ToolResults(_)
ToolResults(d) ==
    IF d = 0 THEN Scalars
    ELSE LET inner == ToolResults(d - 1)
         IN  Scalars
             \cup { DictVal(k, v) : k \in { "id", "name" }, v \in inner }
             \cup { ListVal(<< >>) }
             \cup { ListVal(<< v >>) : v \in inner }
             \cup { JsonVal(v) : v \in { w \in inner : Embeddable(w) } }

Normalize ==
    /\ result # << >>
    /\ Len(result) < 3
    /\ result' = Append(result, ExtractClickupIds(Last(result)))
    /\ UNCHANGED << engine, mcp_client, max_iterations, messages,
                    node_sequence, execution_logs, current_iteration,
                    tool_history, processed_tools, is_final_answer, pc, fault,
                    client, tools, gateway_log, turn >>
    /\ UNCHANGED << streamVars, otherVars >>

InitNormalize ==
    /\ engine = "clickup"
    /\ mcp_client = TRUE
    /\ max_iterations = DefaultMaxIterations
    /\ client = ActiveClient(FullCatalog)
    /\ tools = FullCatalog
    /\ messages = << HumanMessage >>
    /\ node_sequence = << >>
    /\ execution_logs = << >>
    /\ current_iteration = 0
    /\ tool_history = << >>
    /\ processed_tools = << >>
    /\ is_final_answer = FALSE
    /\ pc = ACT
    /\ fault = ""
    /\ gateway_log = << >>
    /\ turn = 1
    /\ StreamIdle
    /\ OtherIdle
    /\ result \in { << x >> : x \in ToolResults(MaxDepth) }

NextNormalize == Normalize

SpecNormalize == InitNormalize /\ [][NextNormalize]_vars

-----------------------------------------------------------------------------
(* The session client on its own: initialize, get_tools, ensure_session, close *)

\* one entry of the log of a client call: the call itself, then the
\* transport-level operations it performed
ClientOp(op, out) == [op |-> op, out |-> out]

\* what initialize() does on the transport for one connection attempt
InitializeOps(c, out) ==
    IF InitIsCached(c) THEN << >>
    ELSE IF out = "fail_transport"
         THEN << ClientOp("stdio_client", "raised") >>
    ELSE IF out = "fail_session"
         THEN << ClientOp("stdio_client", "ok"), ClientOp("ClientSession", "raised") >>
    ELSE << ClientOp("stdio_client", "ok"), ClientOp("ClientSession", "ok"),
            ClientOp("load_mcp_tools", out) >>

\* get_tools(): initialize() is called when there is no catalog or the client
\* is not initialized; the catalog held afterwards is returned
GetToolsInitializes(c) == c.tools = << >> \/ ~c.initialized

GetToolsCall(c, out) ==
    IF GetToolsInitializes(c)
    THEN [client |-> InitializeClient(c, out), raised |-> InitRaises(c, out),
          ops |-> InitializeOps(c, out)]
    ELSE [client |-> c, raised |-> FALSE, ops |-> << >>]

\* what the teardown of the session or of the transport can do inside
\* close(): it is not attempted (nothing left to exit), it succeeds, or it
\* raises one of the fault types the handler names
TeardownOutcomes == { "skipped", "ok", "RuntimeError", "GeneratorExit", "Exception" }

TeardownFaults == { "RuntimeError", "GeneratorExit", "Exception" }

\* the transport is exited whenever its streams are held
TransportOutcomes == TeardownOutcomes \ { "skipped" }

\* except (GeneratorExit, RuntimeError, Exception): pass
TeardownSwallowed(f) == f \in { "GeneratorExit", "RuntimeError", "Exception" }

\* a close() whose handlers let the session fault through: the finally
\* clause still drops the session, the rest of close() is not reached
CloseWith_propagate(c, sf, tf) ==
    IF ~c.initialized THEN [client |-> c, raised |-> FALSE, ops |-> << >>]
    ELSE IF c.session # "none" /\ sf \in TeardownFaults
    THEN [client |-> [c EXCEPT !.session = "none"], raised |-> TRUE,
          ops |-> << ClientOp("session.__aexit__", sf) >>]
    ELSE [client |-> NewClient, raised |-> FALSE, ops |-> << >>]

\* close(): sf / tf are the outcomes of the session and transport teardown
CloseWith(c, sf, tf) ==
    IF ~c.initialized THEN [client |-> c, raised |-> FALSE, ops |-> << >>]
    ELSE
    LET sAttempt == c.session # "none" /\ sf # "skipped"
        sRaised == sAttempt /\ sf \in TeardownFaults /\ ~TeardownSwallowed(sf)
        c1 == [c EXCEPT !.session = "none"]
        ops1 == IF sAttempt THEN << ClientOp("session.__aexit__", sf) >> ELSE << >>
        tAttempt == c.stdio = "open"
        tRaised == tAttempt /\ tf \in TeardownFaults /\ ~TeardownSwallowed(tf)
        c2 == [c1 EXCEPT !.stdio = "none"]
        ops2 == IF tAttempt THEN << ClientOp("stdio.__aexit__", tf) >> ELSE << >>
    IN  IF sRaised THEN [client |-> c1, raised |-> TRUE, ops |-> ops1]
        ELSE IF tRaised THEN [client |-> c2, raised |-> TRUE, ops |-> ops1 \o ops2]
        ELSE [client |-> [c2 EXCEPT !.tools = << >>, !.initialized = FALSE],
              raised |-> FALSE, ops |-> ops1 \o ops2]

ClientCalls == turn - 1

ClientInitialize ==
    /\ ClientCalls < MaxClientOps
    /\ \E out \in InitOutcomes :
         /\ client' = InitializeClient(client, out)
         /\ fault' = IF InitRaises(client, out) THEN "raised" ELSE ""
         /\ tools' = IF InitRaises(client, out) THEN tools
                     ELSE InitializeClient(client, out).tools
         /\ gateway_log' = << ClientOp("initialize", out) >>
                              \o InitializeOps(client, out)
    /\ turn' = turn + 1
    /\ UNCHANGED << result, engine, mcp_client, max_iterations, messages,
                    node_sequence, execution_logs, current_iteration,
                    tool_history, processed_tools, is_final_answer, pc >>
    /\ UNCHANGED << streamVars, otherVars >>

ClientGetTools ==
    /\ ClientCalls < MaxClientOps
    /\ \E out \in InitOutcomes :
         LET r == GetToolsCall(client, out)
         IN  /\ client' = r.client
             /\ fault' = IF r.raised THEN "raised" ELSE ""
             /\ tools' = IF r.raised THEN tools ELSE r.client.tools
             /\ gateway_log' = << ClientOp("get_tools", out) >> \o r.ops
    /\ turn' = turn + 1
    /\ UNCHANGED << result, engine, mcp_client, max_iterations, messages,
                    node_sequence, execution_logs, current_iteration,
                    tool_history, processed_tools, is_final_answer, pc >>
    /\ UNCHANGED << streamVars, otherVars >>

ClientEnsureSession ==
    /\ ClientCalls < MaxClientOps
    /\ \E probe \in Probes, out1 \in InitOutcomes, out2 \in InitOutcomes :
         LET r == EnsureSession(engine, client, probe, out1, out2)
         IN  /\ client' = r.client
             /\ fault' = IF r.raised THEN "raised" ELSE ""
             /\ gateway_log' =
                  << ClientOp("ensure_session",
                              IF NeedsInit(client) THEN "not_probed" ELSE probe) >>
    /\ turn' = turn + 1
    /\ UNCHANGED << result, engine, mcp_client, max_iterations, messages,
                    node_sequence, execution_logs, current_iteration,
                    tool_history, processed_tools, is_final_answer, pc, tools >>
    /\ UNCHANGED << streamVars, otherVars >>

ClientClose ==
    /\ ClientCalls < MaxClientOps
    /\ \E sf \in TeardownOutcomes, tf \in TransportOutcomes :
         LET r == CloseWith(client, sf, tf)
         IN  /\ client' = r.client
             /\ fault' = IF r.raised THEN "raised" ELSE ""
             /\ gateway_log' = << ClientOp("close", "-") >> \o r.ops
    /\ turn' = turn + 1
    /\ UNCHANGED << result, engine, mcp_client, max_iterations, messages,
                    node_sequence, execution_logs, current_iteration,
                    tool_history, processed_tools, is_final_answer, pc, tools >>
    /\ UNCHANGED << streamVars, otherVars >>

\* the client as its constructor leaves it
InitClient ==
    /\ engine \in Engines
    /\ mcp_client = TRUE
    /\ max_iterations = DefaultMaxIterations
    /\ client = NewClient
    /\ tools = << >>
    /\ SeedState
    /\ StreamIdle

NextClient ==
    \/ ClientInitialize
    \/ ClientGetTools
    \/ ClientEnsureSession
    \/ ClientClose

SpecClient == InitClient /\ [][NextClient]_vars

-----------------------------------------------------------------------------
(* Supervisor variant: static tool filtering of the ClickUp sub-agents *)

READER_TOOL_NAMES ==
    { "get_workspace_hierarchy", "search_tasks", "get_container", "find_members" }

WRITER_TOOL_NAMES ==
    { "manage_task", "task_comments", "manage_container", "operate_tags",
      "task_time_tracking", "attach_file_to_task" }

\* a reader that is handed the whole catalog
filter_reader_tools_all(tools_) == tools_

filter_reader_tools(tools_) ==
    SelectSeq(tools_, LAMBDA name : name \in READER_TOOL_NAMES)

filter_writer_tools(tools_) ==
    SelectSeq(tools_, LAMBDA name : name \in WRITER_TOOL_NAMES)

\* tool names a ClickUp server may serve: a reader name, a writer name and a
\* name of neither set
ServedNames == { "search_tasks", "manage_task", "get_spaces" }

RECURSIVE SeqsUpTo(_, _)
SeqsUpTo(S, n) ==
    IF n = 0 THEN { << >> }
    ELSE LET shorter == SeqsUpTo(S, n - 1)
         IN  shorter \cup { Append(q, x) : q \in shorter, x \in S }

SupervisorCatalogs == SeqsUpTo(ServedNames, MaxCatalog)

SubAgents == { "clickup_reader", "clickup_writer" }

ToolsOfAgent(agent) ==
    IF agent = "clickup_reader" THEN supervisor.reader ELSE supervisor.writer

SupervisorUnchanged ==
    /\ UNCHANGED << engineVars, streamVars, sessions, conv, checkpoint >>

\* _get_or_create_supervisor: the catalog of the shared client is loaded and
\* the two sub-agents are created from it
BuildSupervisor ==
    /\ \E cat \in SupervisorCatalogs :
         supervisor' = [catalog |-> cat, source |-> cat,
                        reader |-> filter_reader_tools(cat),
                        writer |-> filter_writer_tools(cat),
                        last |-> [agent |-> "", name |-> "", invoked |-> FALSE]]
    /\ SupervisorUnchanged

\* the shared client is initialized again by another request: its catalog
\* changes, the sub-agents already built keep their tools
ReloadCatalog ==
    /\ supervisor.source # << >>
    /\ \E cat \in SupervisorCatalogs :
         /\ cat # supervisor.catalog
         /\ supervisor' = [supervisor EXCEPT !.catalog = cat]
    /\ SupervisorUnchanged

\* a sub-agent's model requests a tool: the tool node of the agent runs it
\* when the name is among the tools the agent was created with
SubAgentCall ==
    /\ supervisor.source # << >>
    /\ \E agent \in SubAgents, name \in ServedNames :
         supervisor' = [supervisor EXCEPT !.last =
             [agent |-> agent, name |-> name,
              invoked |-> Contains(ToolsOfAgent(agent), name)]]
    /\ SupervisorUnchanged

InitSupervisor ==
    /\ engine = "clickup"
    /\ mcp_client = TRUE
    /\ max_iterations = DefaultMaxIterations
    /\ client = ActiveClient(FullCatalog)
    /\ tools = FullCatalog
    /\ SeedState
    /\ StreamIdle

NextSupervisor ==
    \/ BuildSupervisor
    \/ ReloadCatalog
    \/ SubAgentCall

SpecSupervisor == InitSupervisor /\ [][NextSupervisor]_vars

-----------------------------------------------------------------------------
(* Two conversations on one agent: the coroutines of Act and of the client,  *)
(* cut at the awaits that suspend                                            *)

Convs == { 1, 2 }

OtherConv(c) == 3 - c

\* a conversation before its Act step
IdleConv ==
    [at |-> "idle", ret |-> "", g |-> 0, h |-> 0, phase |-> "first",
     sessExit |-> FALSE, probe |-> "healthy", obs |-> "", mutated |-> FALSE,
     outcome |-> ""]

\* what a conversation reads off the client at a check
ObservedClient(c) ==
    IF c.session = "open" /\ c.tools = << >> THEN "open_no_catalog"
    ELSE IF c.session = "open" /\ ~c.initialized THEN "open_uninitialized"
    ELSE ""

Note(me, kind) == IF me.obs = "" THEN [me EXCEPT !.obs = kind] ELSE me

StatusOf(ses, g) == IF g \in 1..Len(ses.status) THEN ses.status[g] ELSE "none"

IsLive(ses, g) == StatusOf(ses, g) = "live"

ClosedBy(who) == IF who = 1 THEN "closed1" ELSE "closed2"

Exit(ses, g, who) ==
    IF IsLive(ses, g) \/ StatusOf(ses, g) = "dropped"
    THEN [ses EXCEPT !.status[g] = ClosedBy(who)] ELSE ses

Suspend(st, label) == [st EXCEPT !.me.at = label]

Finish(st, outcome) == [st EXCEPT !.me.at = "done", !.me.outcome = outcome]

\* close(): the session is dropped when its teardown returns
CloseSessionField_keep(c) == c

CloseSessionField(c) == [c EXCEPT !.session = "none"]

\* the last statements of close(), after the transport teardown
CloseFinish(st) ==
    [st EXCEPT !.client = [@ EXCEPT !.stdio = "none", !.tools = << >>,
                                    !.initialized = FALSE],
               !.ses = [@ EXCEPT !.rw = FALSE, !.stdioGen = 0]]

\* Run(who, label, st): the code a conversation executes from label until it
\* suspends at an await or leaves Act.  st holds the client, the session
\* bookkeeping, the builder's tools and the conversation's own record.
RECURSIVE Run(_, _, _)
Run(who, label, st) ==
    LET cl == st.client
        ses == st.ses
        me == st.me
    IN
    IF label = "ensure" THEN
        LET st1 == [st EXCEPT !.me = Note(me, ObservedClient(cl))]
        IN  IF NeedsInit(cl)
            THEN Run(who, "init", [st1 EXCEPT !.me.ret = "loop"])
            ELSE IF me.probe = "dead"
            THEN Run(who, "close", [st1 EXCEPT !.me.ret = "loop"])
            ELSE Run(who, "loop", st1)
    ELSE IF label = "close" THEN
        IF ~cl.initialized THEN Run(who, "init", st)
        ELSE LET st1 == [st EXCEPT !.me.mutated = TRUE]
             IN  IF cl.session # "none" /\ me.sessExit
                 THEN Suspend([st1 EXCEPT !.ses = Exit(ses, ses.sessionGen, who)], "c1")
                 ELSE Run(who, "close_transport",
                          [st1 EXCEPT !.client = CloseSessionField(cl)])
    ELSE IF label = "c1" THEN
        Run(who, "close_transport", [st EXCEPT !.client = CloseSessionField(cl)])
    ELSE IF label = "close_transport" THEN
        IF cl.stdio # "none" /\ ses.rw
        THEN Suspend([st EXCEPT !.ses = Exit(ses, ses.stdioGen, who)], "c2")
        ELSE Run(who, "init", CloseFinish(st))
    ELSE IF label = "c2" THEN
        Run(who, "init", CloseFinish(st))
    ELSE IF label = "init" THEN
        LET st1 == [st EXCEPT !.me = Note(me, ObservedClient(cl))]
        IN  IF InitIsCached(cl) THEN Run(who, me.ret, st1)
            ELSE IF ses.next > MaxSessions THEN Suspend(st1, "halt")
            ELSE Suspend([st1 EXCEPT
                     !.client = [cl EXCEPT !.stdio = "pending"],
                     !.ses = [ses EXCEPT !.stdioGen = ses.next,
                                         !.next = ses.next + 1,
                                         !.status = Append(ses.status, "live")],
                     !.me = [st1.me EXCEPT !.g = ses.next, !.mutated = TRUE]], "i1")
    ELSE IF label = "i1" THEN
        IF ~IsLive(ses, me.g) THEN Finish(st, "init_failed")
        ELSE Suspend([st EXCEPT
                 !.client = [cl EXCEPT !.stdio = "open", !.session = "open"],
                 !.ses = [ses EXCEPT !.rw = TRUE, !.sessionGen = me.g]], "i2")
    ELSE IF label = "i2" THEN
        IF ~IsLive(ses, me.g) THEN Finish(st, "init_failed")
        ELSE Run(who, me.ret,
                 [st EXCEPT !.client = [cl EXCEPT !.tools = FullCatalog,
                                                  !.initialized = TRUE],
                            !.ses = [ses EXCEPT !.toolsGen = me.g]])
    ELSE IF label = "gettools" THEN
        LET st1 == [st EXCEPT !.me = Note(me, ObservedClient(cl))]
        IN  IF cl.tools = << >> \/ ~cl.initialized
            THEN Run(who, "init", [st1 EXCEPT !.me.ret = "assign"])
            ELSE Run(who, "assign", st1)
    ELSE IF label = "assign" THEN
        Run(who, "loop", [st EXCEPT !.tools = cl.tools,
                                    !.ses = [ses EXCEPT !.builderGen = ses.toolsGen],
                                    !.me = [me EXCEPT !.phase = "retry"]])
    ELSE IF label = "loop" THEN
        IF st.tools = << >> THEN Finish(st, "not_found")
        ELSE LET closedByOther ==
                    StatusOf(ses, ses.builderGen) = ClosedBy(OtherConv(who))
                 me1 == IF closedByOther THEN Note(me, "closed_tool") ELSE me
             IN  Suspend([st EXCEPT !.me = [me1 EXCEPT !.h = ses.builderGen]],
                         "invoking")
    ELSE IF label = "invoking" THEN
        IF IsLive(ses, me.h) THEN Finish(st, "success")
        ELSE IF me.phase = "retry" THEN Finish(st, "retry_failed")
        ELSE Run(who, "close", [st EXCEPT !.me.ret = "gettools"])
    ELSE st

RaceState(who) ==
    [client |-> client, ses |-> sessions, tools |-> tools, me |-> conv[who]]

RaceApply(who, st) ==
    /\ client' = st.client
    /\ sessions' = st.ses
    /\ tools' = st.tools
    /\ conv' = [conv EXCEPT ![who] = st.me]
    /\ UNCHANGED << engine, mcp_client, max_iterations, messages,
                    node_sequence, execution_logs, current_iteration,
                    tool_history, processed_tools, is_final_answer, pc, fault,
                    gateway_log, turn, result, supervisor, checkpoint >>
    /\ UNCHANGED streamVars

\* a conversation enters Act: ensure_session and what follows it without a
\* suspension
RaceEnterAct(who) ==
    /\ conv[who].at = "idle"
    /\ \E probe \in Probes, sessExit \in BOOLEAN :
         /\ probe = "dead" => ~IsLive(sessions, sessions.sessionGen)
         /\ RaceApply(who, Run(who, "ensure",
             [RaceState(who) EXCEPT !.me.probe = probe, !.me.sessExit = sessExit]))

\* the event loop resumes a conversation at the await it is suspended at
RaceResume(who) ==
    /\ conv[who].at \in { "c1", "c2", "i1", "i2", "invoking" }
    /\ RaceApply(who, Run(who, conv[who].at, RaceState(who)))

\* the server side of the session the client holds goes away
SessionDrop ==
    /\ IsLive(sessions, sessions.sessionGen)
    /\ sessions' = [sessions EXCEPT !.status[sessions.sessionGen] = "dropped"]
    /\ UNCHANGED << conv, supervisor, checkpoint >>
    /\ UNCHANGED << engineVars, streamVars >>

InitRace ==
    /\ engine = "clickup"
    /\ mcp_client = TRUE
    /\ max_iterations = DefaultMaxIterations
    /\ client = ActiveClient(FullCatalog)
    /\ tools = FullCatalog
    /\ messages = << HumanMessage >>
    /\ node_sequence = << >>
    /\ execution_logs = << >>
    /\ current_iteration = 0
    /\ tool_history = << >>
    /\ processed_tools = << >>
    /\ is_final_answer = FALSE
    /\ pc = ACT
    /\ fault = ""
    /\ gateway_log = << >>
    /\ turn = 1
    /\ result = << >>
    /\ supervisor = NoSupervisor
    /\ sessions = OneSession
    /\ conv = << IdleConv, IdleConv >>
    /\ checkpoint = NoCheckpoint
    /\ StreamIdle

NextRace ==
    \/ \E who \in Convs : RaceEnterAct(who)
    \/ \E who \in Convs : RaceResume(who)
    \/ SessionDrop

SpecRace == InitRace /\ [][NextRace]_vars

-----------------------------------------------------------------------------
(* Act against catalogs of any length: tool names missing from the catalog *)

\* the names an MCP server lists, in the server's order or in the reverse one
NamedCatalog(n) == [i \in 1..n |-> "tool_" \o ToString(i)]

ReverseSeq(q) == [i \in 1..Len(q) |-> q[Len(q) + 1 - i]]

MissCatalogs ==
    UNION { { NamedCatalog(n), ReverseSeq(NamedCatalog(n)) } :
              n \in 0..MaxMissCatalog }

CallT == [id |-> "t", name |-> "tool_1", args |-> "p"]
CallGE == [id |-> "", name |-> "ghost_tool", args |-> "p"]

MissPool == { NoCalls, << CallG >>, << CallGE >>, << CallT >> }

InitMiss ==
    /\ engine \in Engines
    /\ mcp_client \in BOOLEAN
    /\ max_iterations = MaxMissIter
    /\ tools \in MissCatalogs
    /\ client = IF mcp_client THEN ActiveClient(tools) ELSE NewClient
    /\ SeedState
    /\ StreamIdle

NextMiss ==
    \/ ReasonRespond(MissPool)
    \/ ActRun({ "healthy" }, { "full" }, "turns")
    \/ Observe
    \/ Finalize

SpecMiss == InitMiss /\ [][NextMiss]_vars

-----------------------------------------------------------------------------
(* result_summarizer: the family formatters of both engines *)

\* formatters that slice their items at 20 and at 15
ListFamilies == { "spaces", "folders", "lists", "database_query" }
SearchFamilies == { "docs", "doc_pages", "views", "search_results", "blocks" }

\* one slice length for every formatter
ItemCap_uniform(family) == 20

\* result[:20] / docs[:15]: the slice a formatter takes of its items
ItemCap(family) == IF family \in ListFamilies THEN 20 ELSE 15

\* an item of the payload: an object of the expected shape, a value that is
\* not an object, or an object whose nested field (creator, a property) is
\* not an object
ItemKinds == { "dict", "scalar", "malformed" }

\* doc.get("creator", {}).get(...) and prop.get("type") are not guarded
ItemRaises(family, kind) ==
    /\ kind = "malformed"
    /\ family \in { "docs", "search_results", "database_query" }

ItemsOf(n, p, kind) == [i \in 1..n |-> IF i = p THEN kind ELSE "dict"]

\* the payloads handed to a formatter: whether the container has the shape
\* the formatter expects, and the items, of which at most one is irregular
SummaryInputs ==
    { [family |-> f, container |-> c, items |-> ItemsOf(n, p, k)] :
        f \in ListFamilies \cup SearchFamilies, c \in BOOLEAN,
        n \in 0..MaxItems, p \in 0..MaxItems, k \in { "scalar", "malformed" } }

SummaryOf(form, header, lines, trailer) ==
    [form |-> form, header |-> header, lines |-> lines, trailer |-> trailer]

\* _summarize_spaces and the formatters of the same structure: the header
\* count, the number of item lines and the count of the trailer (0: none)
summarize_family(v) ==
    LET cap == ItemCap(v.family)
        n == Len(v.items)
        shown == SubSeq(v.items, 1, IF n < cap THEN n ELSE cap)
    IN  IF ~v.container THEN SummaryOf("default", 0, 0, 0)
        ELSE IF \E i \in 1..Len(shown) : ItemRaises(v.family, shown[i])
        THEN SummaryOf("raised", 0, 0, 0)
        ELSE SummaryOf("family", n,
                       Len(SelectSeq(shown, LAMBDA k : k # "scalar")),
                       IF n > cap THEN n - cap ELSE 0)

Summarize ==
    /\ Len(result) = 1
    /\ result' = Append(result, summarize_family(result[1]))
    /\ UNCHANGED << engine, mcp_client, max_iterations, messages,
                    node_sequence, execution_logs, current_iteration,
                    tool_history, processed_tools, is_final_answer, pc, fault,
                    client, tools, gateway_log, turn >>
    /\ UNCHANGED << streamVars, otherVars >>

InitSummary ==
    /\ engine \in Engines
    /\ mcp_client = TRUE
    /\ max_iterations = DefaultMaxIterations
    /\ client = ActiveClient(FullCatalog)
    /\ tools = FullCatalog
    /\ messages = << HumanMessage >>
    /\ node_sequence = << >>
    /\ execution_logs = << >>
    /\ current_iteration = 0
    /\ tool_history = << >>
    /\ processed_tools = << >>
    /\ is_final_answer = FALSE
    /\ pc = OBSERVE
    /\ fault = ""
    /\ gateway_log = << >>
    /\ turn = 1
    /\ StreamIdle
    /\ OtherIdle
    /\ result \in { << x >> : x \in SummaryInputs }

NextSummary == Summarize

SpecSummary == InitSummary /\ [][NextSummary]_vars

-----------------------------------------------------------------------------
(* result_summarizer: the length of a summary, character by character *)

\* number of decimal digits of n
RECURSIVE Digits(_)
Digits(n) == IF n < 10 THEN 1 ELSE 1 + Digits(n \div 10)

\* max_length of _truncate_string_result
StringBudget == 2000

\* _truncate_string_result on a string of n characters: the string itself,
\* or its first 2000 characters and the trailer "\n\n... (총 n자 중 2000자만 표시)"
truncate_string_result(n) ==
    IF n <= StringBudget THEN n
    ELSE StringBudget + 23 + Digits(n)

\* _summarize_default on {"name": <n characters>}, on a list of c strings of
\* n characters each, and on a scalar: the length of the text it returns
summarize_default(v) ==
    IF v.shape = "dict" THEN 54 + v.n
    ELSE IF v.shape = "list"
    THEN IF v.c = 0 THEN 24
         ELSE LET k == IF v.c < 3 THEN v.c ELSE 3
              IN  42 + Digits(v.c) + Digits(k)
                     + (2 + k * (4 + v.n) + (k - 1) * 2 + 2)
                     + (IF v.c > 3 THEN 12 + Digits(v.c - 3) ELSE 0)
    ELSE truncate_string_result(1)

\* summarize_tool_result: a string that is not JSON is truncated, a JSON
\* string is decoded first, clickup_get_spaces on a list of c spaces whose
\* names have n characters goes to _summarize_spaces, the rest to the default
summarize_tool_result(v) ==
    IF v.shape = "text" THEN truncate_string_result(v.n)
    ELSE IF v.shape = "json" THEN summarize_default([v EXCEPT !.shape = "dict"])
    ELSE IF v.shape = "spaces"
    THEN LET k == IF v.c < 20 THEN v.c ELSE 20
         IN  44 + Digits(v.c) + k * (28 + v.n)
                + (IF v.c > 20 THEN 13 + Digits(v.c - 20) ELSE 0)
    ELSE summarize_default(v)

\* lengths of the strings inside a tool result
SizePoints ==
    { 0, 1, StringBudget - 1, StringBudget, StringBudget + 1 }
        \cup { 1000 * k : k \in 1..MaxSizeK }

\* tool results: plain text, a JSON-encoded map, a map, a list, a list of
\* spaces, a scalar
BudgetInputs ==
    { [shape |-> sh, n |-> n, c |-> c] :
        sh \in { "text", "json", "dict", "list", "spaces", "scalar" },
        n \in SizePoints, c \in 0..MaxListItems }

SummarizeLength ==
    /\ Len(result) = 1
    /\ result' = Append(result, [length |-> summarize_tool_result(result[1])])
    /\ UNCHANGED << engine, mcp_client, max_iterations, messages,
                    node_sequence, execution_logs, current_iteration,
                    tool_history, processed_tools, is_final_answer, pc, fault,
                    client, tools, gateway_log, turn >>
    /\ UNCHANGED << streamVars, otherVars >>

InitBudget ==
    /\ engine = "clickup"
    /\ mcp_client = TRUE
    /\ max_iterations = DefaultMaxIterations
    /\ client = ActiveClient(FullCatalog)
    /\ tools = FullCatalog
    /\ messages = << HumanMessage >>
    /\ node_sequence = << >>
    /\ execution_logs = << >>
    /\ current_iteration = 0
    /\ tool_history = << >>
    /\ processed_tools = << >>
    /\ is_final_answer = FALSE
    /\ pc = OBSERVE
    /\ fault = ""
    /\ gateway_log = << >>
    /\ turn = 1
    /\ StreamIdle
    /\ OtherIdle
    /\ result \in { << x >> : x \in BudgetInputs }

NextBudget == SummarizeLength

SpecBudget == InitBudget /\ [][NextBudget]_vars

-----------------------------------------------------------------------------
(* A turn with room for several Act steps whose health check may fail *)

InitHealth ==
    /\ engine \in Engines
    /\ mcp_client = TRUE
    /\ max_iterations = MaxHealthIter
    /\ client = ActiveClient(FullCatalog)
    /\ tools = FullCatalog
    /\ SeedState
    /\ StreamIdle

NextHealth ==
    \/ ReasonRespond(TurnsResponsePool)
    \/ ReasonEmpty
    \/ ActHealthFail(Probes, InitOutcomes)
    \/ ActRun({ "healthy" }, { "full" }, "turns")
    \/ Observe
    \/ Finalize

SpecHealth == InitHealth /\ [][NextHealth]_vars

-----------------------------------------------------------------------------
(* Two invocations for one conversation id: the runs and the checkpoint store *)

\* node sequences of the engine run of an invocation
RunPaths ==
    { << REASON, FINALIZE >>, << REASON, ACT, OBSERVE, REASON, FINALIZE >> }

Invocation(kind, path) ==
    [kind |-> kind, at |-> "idle", path |-> path, done |-> 0,
     final |-> NoCheckpoint]

\* the values of the invocation's own run after `done` nodes
RunValues(who) ==
    [owner |-> who, node_sequence |-> SubSeq(conv[who].path, 1, conv[who].done)]

FinalUnchanged ==
    /\ UNCHANGED << engineVars, streamVars, supervisor, sessions >>

\* graph.ainvoke / graph.astream_events(initial_state, config): the run
\* starts and the store keeps the input under the thread id
InvokeStart(who) ==
    /\ conv[who].at = "idle"
    /\ conv' = [conv EXCEPT ![who].at = "loop"]
    /\ checkpoint' = [owner |-> who, node_sequence |-> << >>]
    /\ FinalUnchanged

\* one node of the run completes: its values are written to the store under
\* the thread id, then the events of the node are handed to the consumer
InvokeNode(who) ==
    /\ conv[who].at = "loop"
    /\ conv[who].done < Len(conv[who].path)
    /\ conv' = [conv EXCEPT ![who].done = @ + 1]
    /\ checkpoint' = [owner |-> who,
                      node_sequence |-> SubSeq(conv[who].path, 1,
                                               conv[who].done + 1)]
    /\ FinalUnchanged

\* after the run: chat builds its answer from the value ainvoke returned,
\* stream_chat from graph.aget_state(config), the store's entry for the
\* thread id
FinalRead(who) ==
    /\ conv[who].at = "loop"
    /\ conv[who].done = Len(conv[who].path)
    /\ conv' = [conv EXCEPT ![who].at = "done",
                            ![who].final =
                                IF conv[who].kind = "stream_chat"
                                THEN checkpoint ELSE RunValues(who)]
    /\ UNCHANGED checkpoint
    /\ FinalUnchanged

InitFinal ==
    /\ engine \in Engines
    /\ mcp_client = TRUE
    /\ max_iterations = DefaultMaxIterations
    /\ client = ActiveClient(FullCatalog)
    /\ tools = FullCatalog
    /\ messages = << HumanMessage >>
    /\ node_sequence = << >>
    /\ execution_logs = << >>
    /\ current_iteration = 0
    /\ tool_history = << >>
    /\ processed_tools = << >>
    /\ is_final_answer = FALSE
    /\ pc = REASON
    /\ fault = ""
    /\ gateway_log = << >>
    /\ turn = 1
    /\ result = << >>
    /\ supervisor = NoSupervisor
    /\ sessions = OneSession
    /\ checkpoint = NoCheckpoint
    /\ StreamIdle
    /\ \E k \in { "chat", "stream_chat" }, p1 \in RunPaths, p2 \in RunPaths :
          conv = << Invocation("stream_chat", p1), Invocation(k, p2) >>

NextFinal ==
    \/ \E who \in { 1, 2 } : InvokeStart(who)
    \/ \E who \in { 1, 2 } : InvokeNode(who)
    \/ \E who \in { 1, 2 } : FinalRead(who)

SpecFinal == InitFinal /\ [][NextFinal]_vars

-----------------------------------------------------------------------------
(* chat_stream.event_generator: tool invocations of the agents and their events *)

MaxToolCalls == 3

\* how a tool invocation of an agent ends, as the event stream shows it: the
\* tool returns its value (on_tool_end), the tool wrapper turns a failure
\* into an error text that it returns (on_tool_end), or the tool raises and
\* no on_tool_end event follows
ToolEndings == { "returned", "error_output", "raised" }

ToolSucceeded(inv) == inv.outcome = "returned"

ToolStartEvent(agent, iteration, tool) ==
    [type |-> "tool_start", node |-> agent, iteration |-> iteration,
     data |-> << tool >>]

\* the tool_result event of the on_tool_end branch: 'success': True
SupervisorToolResult(agent, iteration, tool, ending) ==
    [type |-> "tool_result", node |-> agent, iteration |-> iteration,
     data |-> << tool, TRUE >>]

\* final_event: used_tools, tool_usage_count, tool_details from tool_results
SupervisorFinal(tool_results) ==
    [type |-> "final", node |-> "supervisor", iteration |-> 0,
     data |-> << [i \in 1..Len(tool_results) |-> tool_results[i].tool],
                 Len(tool_results), tool_results >>]

ReportUnchanged ==
    /\ UNCHANGED << engine, mcp_client, max_iterations, messages,
                    node_sequence, execution_logs, current_iteration,
                    tool_history, processed_tools, is_final_answer, pc, fault,
                    client, tools, gateway_log, turn, site, otherVars >>

\* on_tool_start: an agent invokes a tool; the tool_start event is written
SupervisorToolStart ==
    /\ gen.at = "loop"
    /\ Len(result) < MaxToolCalls
    /\ \A i \in 1..Len(result) : result[i].outcome # "running"
    /\ \E t \in SeqToSet(FullCatalog) :
         /\ result' = Append(result, [tool |-> t, outcome |-> "running"])
         /\ sse' = Append(sse, ToolStartEvent("agent", 0, t))
    /\ UNCHANGED gen
    /\ ReportUnchanged

\* the running invocation ends; only an on_tool_end event reaches the
\* branch that appends to tool_results and writes the tool_result event
SupervisorToolEnd ==
    /\ gen.at = "loop"
    /\ Len(result) >= 1
    /\ result[Len(result)].outcome = "running"
    /\ \E ending \in ToolEndings :
         LET t == result[Len(result)].tool
             ev == SupervisorToolResult("agent", 0, t, ending)
         IN  /\ result' = [result EXCEPT ![Len(result)].outcome = ending]
             /\ IF ending = "raised"
                THEN UNCHANGED << sse, gen >>
                ELSE /\ sse' = Append(sse, ev)
                     /\ gen' = [gen EXCEPT !.tool_results =
                                  Append(@, [tool |-> t,
                                             success |-> ev.data[2]])]
    /\ ReportUnchanged

\* the event stream ends: the final event is built from tool_results
SupervisorStreamFinal ==
    /\ gen.at = "loop"
    /\ \A i \in 1..Len(result) : result[i].outcome # "running"
    /\ sse' = Append(sse, SupervisorFinal(gen.tool_results))
    /\ gen' = [gen EXCEPT !.at = "post"]
    /\ UNCHANGED result
    /\ ReportUnchanged

InitReport ==
    /\ site = "supervisor"
    /\ sse = << >>
    /\ gen = [at |-> "loop", consumed |-> 0, cause |-> "",
              tool_results |-> << >>]
    /\ engine \in Engines
    /\ mcp_client = TRUE
    /\ max_iterations = DefaultMaxIterations
    /\ client = ActiveClient(FullCatalog)
    /\ tools = FullCatalog
    /\ SeedState

NextReport ==
    \/ SupervisorToolStart
    \/ SupervisorToolEnd
    \/ SupervisorStreamFinal

SpecReport == InitReport /\ [][NextReport]_vars

-----------------------------------------------------------------------------
(* Properties *)

TypeOK == pc \in { REASON, ACT, OBSERVE, FINALIZE, "end", "raised" }

ReasonSteps == Count(node_sequence, REASON)

LastNode == IF node_sequence = << >> THEN "" ELSE Last(node_sequence)

\* C1: iteration ceiling precedence.  For max_iterations = N >= 1, the
\* continuation policy evaluated right after the N-th completed Reason step of
\* a turn selects Finalize, whatever the assistant turn of that step carries;
\* Act is not entered after the N-th Reason.
C1_CeilingPrecedence ==
    [][ ( /\ pc = REASON
          /\ node_sequence' = Append(node_sequence, REASON)
          /\ max_iterations >= 1
          /\ Count(node_sequence', REASON) = max_iterations )
        => pc' = FINALIZE ]_vars

\* the N-th Reason step requested tool calls and Finalize is due
C1_Witness ==
    /\ pc = FINALIZE
    /\ max_iterations >= 1
    /\ ReasonSteps = max_iterations
    /\ Last(messages).role = "ai"
    /\ Last(messages).calls # NoCalls

\* C2 (as stated): with max_iterations = 3 and a model that requests a tool
\* call in every Reason step, the finished turn has the node_sequence
\* (reason, act, observe) x 3 followed by finalize, of length 3*3 + 1 = 10.
C2_Original ==
    (pc = "end" /\ max_iterations = 3)
        => node_sequence = << REASON, ACT, OBSERVE, REASON, ACT, OBSERVE,
                              REASON, ACT, OBSERVE, FINALIZE >>

\* C2 (amended): with max_iterations = 3 and a model that requests a tool call
\* in every Reason step, the turn has at most 3 Reason entries at any time and
\* the finished turn has the node_sequence (reason, act, observe) x 2, reason,
\* finalize, of length 3*3 - 1 = 8.
C2_Amended ==
    max_iterations = 3
        => /\ ReasonSteps <= 3
           /\ pc = "end"
                => node_sequence = << REASON, ACT, OBSERVE, REASON, ACT,
                                      OBSERVE, REASON, FINALIZE >>

\* a turn with max_iterations = 3 has finished
C2_Witness == pc = "end" /\ max_iterations = 3 /\ ReasonSteps = 3

\* C3: iteration exhaustion is a termination path, not an error.  With the
\* default max_iterations and a model that requests a tool in every Reason
\* step, no run is ended by an error, and a finished run has made exactly
\* max_iterations Reason steps.
C3_ExhaustionIsNotAnError ==
    max_iterations = DefaultMaxIterations
        => /\ pc # "raised"
           /\ pc = "end" => ReasonSteps = max_iterations

\* the calls the most recent Act made for the tool call at position idx
OpsOf(idx) == SelectSeq(gateway_log, LAMBDA e : e.idx = idx)

OpCount(ops, op) ==
    Cardinality({ i \in 1..Len(ops) : ops[i].op = op })

\* C4: session-fault bounded retry.  Every tool call of the most recent Act is
\* invoked at most twice and closes / initializes the session at most once;
\* a call whose first invocation raised a session-closed fault is followed by
\* exactly one recovery, in the order close, initialize, catalog refresh,
\* re-invocation with the same name and arguments, cut short only by a
\* recovery step that raises, and the call has a record in tool_history.
C4_BoundedRetry ==
    \A idx \in { gateway_log[i].idx : i \in 1..Len(gateway_log) } :
        LET ops == OpsOf(idx)
        IN  /\ ops[1].op = "invoke"
            /\ OpCount(ops, "invoke") <= 2
            /\ OpCount(ops, "close") <= 1
            /\ OpCount(ops, "initialize") <= 1
            /\ ~IsSessionClosedFault(ops[1].out) => Len(ops) = 1
            /\ IsSessionClosedFault(ops[1].out) =>
                 /\ Len(ops) >= 3
                 /\ ops[2].op = "close"
                 /\ ops[3].op = "initialize"
                 /\ Len(ops) >= 4 => ops[4].op = "get_tools"
                 /\ Len(ops) >= 5 =>
                      /\ Len(ops) = 5
                      /\ ops[5].op = "invoke"
                      /\ ops[5].name = ops[1].name
                      /\ ops[5].args = ops[1].args
                 /\ \E i \in 1..Len(tool_history) :
                      /\ tool_history[i].tool = ops[1].name
                      /\ tool_history[i].args = ops[1].args

\* number of tool calls with a non-empty id
RECURSIVE CallsWithId(_)
CallsWithId(calls) ==
    IF calls = << >> THEN << >>
    ELSE (IF Head(calls).id # "" THEN << Head(calls) >> ELSE << >>)
         \o CallsWithId(Tail(calls))

\* C5: every outcome of every requested tool call is recorded.  An Act step
\* appends to tool_history exactly one record per tool call with a non-empty
\* id of the last assistant turn, in call order, carrying that call's id and
\* tool name.
C5_EveryCallRecorded ==
    [][ (pc = ACT /\ pc' = OBSERVE) =>
          LET calls == CallsWithId(ToolCallsOf(Last(messages)))
              n == Len(tool_history)
          IN  /\ Len(tool_history') = n + Len(calls)
              /\ \A i \in 1..Len(calls) :
                   /\ tool_history'[n + i].tool_call_id = calls[i].id
                   /\ tool_history'[n + i].tool = calls[i].name ]_vars

\* result kinds that stem from an empty or null return value
EmptyResultKinds == { "none", "empty_str", "empty_notice", "empty_list" }

\* C6: null-result distrust.  No record of a tool invocation that returned
\* null, an empty string or an empty list has success = true.
C6_NullResultDistrust ==
    \A i \in 1..Len(tool_history) :
        tool_history[i].success => tool_history[i].kind \notin EmptyResultKinds

NoDuplicateToolMessageIds ==
    \A i, j \in 1..Len(messages) :
        (i # j /\ IsToolMessage(messages[i]) /\ IsToolMessage(messages[j]))
            => messages[i].id # messages[j].id

\* one more record the tool_history may hold when Observe runs again
ExtraHistories ==
    { << >> } \cup
    { << ToolRecord(c, ok, IF ok THEN "data" ELSE "error:fault") >> :
        c \in { CallA, CallB, CallG }, ok \in BOOLEAN }

\* C7: idempotent observation.  Messages never holds two ToolMessages with
\* the same tool_call_id, and Observe run again on the state an Observe step
\* produced (with the same or an extended tool_history) appends nothing.
C7_IdempotentObserve ==
    /\ NoDuplicateToolMessageIds
    /\ LastNode = OBSERVE =>
         \A extra \in ExtraHistories :
             \A order \in Orders(ValidToolCallIds(messages)) :
                 ObserveAppend(messages, tool_history \o extra,
                               processed_tools, order) = << >>

\* an Observe step has appended ToolMessages for a two-call assistant turn
C7_Witness ==
    /\ LastNode = OBSERVE
    /\ Len(messages) >= 4
    /\ IsToolMessage(messages[Len(messages)])
    /\ IsToolMessage(messages[Len(messages) - 1])

\* position of the message before the block of ToolMessages that holds i
BlockHead(i) ==
    CHOOSE k \in 0..(i - 1) :
        /\ k = 0 \/ ~IsToolMessage(messages[k])
        /\ \A j \in (k + 1)..i : IsToolMessage(messages[j])

\* C8: every ToolMessage answers a tool call of the assistant turn that
\* immediately precedes its block of ToolMessages.
C8_ToolMessagesAnswerPrecedingTurn ==
    \A i \in 1..Len(messages) :
        IsToolMessage(messages[i]) =>
            LET k == BlockHead(i)
            IN  /\ k >= 1
                /\ messages[k].role = "ai"
                /\ \E c \in 1..Len(messages[k].calls) :
                     messages[k].calls[c].id = messages[i].id

\* C9: with the default max_iterations, a run in which tool calls fail is
\* ended with an error only by a fault of the model call in Reason.
C9_OnlyModelFaultEndsTurn ==
    (max_iterations = DefaultMaxIterations /\ pc = "raised")
        => fault = "model"

\* C10: when the generator of a chat/stream endpoint has ended, the stream
\* ends with a final or error event followed by the end marker [DONE].
C10_StreamEndsWithDone ==
    gen.at = "closed" =>
        /\ Len(sse) >= 2
        /\ sse[Len(sse)] = DONE
        /\ sse[Len(sse) - 1] \in { "final", "error" }

ErrorPositions == { i \in 1..Len(sse) : sse[i] = "error" }

\* C11: an unhandled fault while a stream is produced (during set-up, between
\* events or while the final event is built) puts exactly one error event
\* on the stream, nothing but the end marker follows it, and the generator
\* has ended; no stream holds more than one error event.
C11_SingleErrorThenEnd ==
    /\ Cardinality(ErrorPositions) <= 1
    /\ \A i \in ErrorPositions : \A j \in (i + 1)..Len(sse) : sse[j] = DONE
    /\ ErrorPositions # {} => gen.at = "closed"
    /\ gen.cause \notin { "", "save_swallowed" } => ErrorPositions # {}

\* a fault between two stage events has been turned into the error event
C11_Witness ==
    /\ gen.cause = "run"
    /\ gen.at = "closed"
    /\ Len(sse) >= 3
    /\ ErrorPositions # {}

PersistCauses == { "persist_pre", "persist_post", "save_swallowed" }

\* C15: a fault of the chat / session persistence (session creation before
\* the turn, saving the chat after it) does not fail the turn: the stream of
\* a turn in which persistence failed carries no error event.
C15_PersistenceFaultIsolation ==
    gen.cause \in PersistCauses => ErrorPositions = {}

\* the event types of the stream contract
EventVocabulary ==
    { "node_start", "message_chunk", "node_end", "tool_result", "final",
      "error" }

\* C20: every event written by a chat/stream endpoint (ClickUp engine,
\* Notion engine, supervisor) has an event type of the vocabulary node_start,
\* message_chunk, node_end, tool_result, final, error.
C20_EventVocabulary ==
    \A i \in 1..Len(sse) : sse[i] # DONE => sse[i] \in EventVocabulary

\* C14: cross-turn continuity.  On a fresh conversation the first Reason step
\* sees the new user message alone; when a turn is started on the
\* conversation of a completed turn, the first Reason step of the new turn
\* sees that turn's final message history followed by the new user message.
C14_CrossTurnContinuity ==
    /\ []((turn = 1 /\ node_sequence = << >> /\ pc = REASON)
            => messages = << HumanMessage >>)
    /\ [][ (pc = "end" /\ turn' = turn + 1)
             => messages' = Append(messages, HumanMessage) ]_vars

NodeEvents ==
    SelectSeq(sse, LAMBDA e : e.type \in { "node_start", "node_end" })

StartedNodes ==
    LET starts == SelectSeq(sse, LAMBDA e : e.type = "node_start")
    IN  [i \in 1..Len(starts) |-> starts[i].node]

\* position of the last node event before position i (0 if there is none)
LastNodeEventBefore(i) ==
    LET ps == { j \in 1..(i - 1) : sse[j].type \in { "node_start", "node_end" } }
    IN  IF ps = {} THEN 0 ELSE CHOOSE j \in ps : \A k \in ps : k <= j

ReportedRecords ==
    LET rs == SelectSeq(sse, LAMBDA e : e.type = "tool_result")
    IN  [i \in 1..Len(rs) |-> rs[i].data]

HistoryRecords(n) ==
    [i \in 1..n |-> << tool_history[i].tool, tool_history[i].args,
                       tool_history[i].success >>]

C16_RoundTripNormalization ==
    Len(result) = 3 => result[3] = result[2]

\* the same statement on results in which no id field carries more than one
\* lc_ prefix
C16_SinglePrefixRoundTrip ==
    LET RECURSIVE Nested(_)
        Nested(v) == \/ v.kind = "str" /\ v.lc >= 2
                     \/ \E i \in 1..Len(v.sub) : Nested(v.sub[i])
    IN  (Len(result) = 3 /\ ~Nested(result[1])) => result[3] = result[2]

LastCall == IF gateway_log = << >> THEN "" ELSE gateway_log[1].op

IsActive(c) ==
    c.initialized /\ c.session = "open" /\ c.stdio = "open" /\ c.tools # << >>

ReinitOnce(c) == { InitializeClient(CloseClient(c), o) : o \in InitOutcomes }

ReinitResults(c) ==
    ReinitOnce(c) \cup UNION { ReinitOnce(d) : d \in ReinitOnce(c) }

\* C18: ensure_session health check.  When the client is uninitialized or the
\* probe finds the session dead, the client afterwards is what close followed
\* by initialize leaves; whenever ensure_session returns without raising, the
\* client is active (initialized, session and transport open, catalog
\* loaded); on a healthy active client nothing changes.
C18_EnsureSessionRestores ==
    [][ ( /\ turn' = turn + 1
          /\ gateway_log'[1].op = "ensure_session" )
        => /\ fault' = "" => IsActive(client')
           /\ (~client.initialized \/ gateway_log'[1].out = "dead")
                => /\ client' \in ReinitResults(client)
                   /\ fault' = ""
                        => \E o \in { "full", "reduced" } :
                             client' = ActiveClient(CatalogOf(o))
           /\ (IsActive(client) /\ gateway_log'[1].out = "healthy")
                => (client' = client /\ fault' = "") ]_vars

\* ensure_session found the session of an active client dead and returned
\* with a client connected anew
C18_Witness ==
    /\ LastCall = "ensure_session"
    /\ gateway_log[1].out = "dead"
    /\ fault = ""
    /\ IsActive(client)

\* C19: close() is best-effort.  Whatever fault the session teardown or the
\* transport teardown raises, close() does not raise; called on an
\* initialized client it leaves the client uninitialized (no session, no
\* transport handle, empty catalog, flag false); on an uninitialized client
\* it does nothing.
C19_CloseBestEffort ==
    [][ ( /\ turn' = turn + 1
          /\ gateway_log'[1].op = "close" )
        => /\ fault' = ""
           /\ client.initialized => client' = NewClient
           /\ ~client.initialized
                => (client' = client /\ Len(gateway_log') = 1) ]_vars

\* close() has returned on a client whose session teardown and transport
\* teardown both raised
C19_Witness ==
    /\ LastCall = "close"
    /\ Len(gateway_log) = 3
    /\ gateway_log[2].out \in TeardownFaults
    /\ gateway_log[3].out \in TeardownFaults
    /\ client = NewClient
    /\ fault = ""

\* C21: iteration ceiling.  In every state of a turn, for every non-negative
\* max_iterations, current_iteration <= max_iterations; the counter starts at
\* 0, only Reason changes it, by exactly +1 per Reason entry, and no Reason
\* entry takes the counter above the ceiling.
C21_IterationWithinCeiling ==
    /\ [](current_iteration <= max_iterations)
    /\ [](node_sequence = << >> => current_iteration = 0)
    /\ [][ /\ current_iteration' # current_iteration
                => /\ pc = REASON
                   /\ current_iteration' = current_iteration + 1
           /\ node_sequence' = Append(node_sequence, REASON)
                => current_iteration' = current_iteration + 1 ]_vars

\* the same statement for a ceiling of at least one Reason step
C21_PositiveCeiling ==
    /\ [](max_iterations >= 1 => current_iteration <= max_iterations)
    /\ [](node_sequence = << >> => current_iteration = 0)
    /\ [][ /\ current_iteration' # current_iteration
                => /\ pc = REASON
                   /\ current_iteration' = current_iteration + 1
           /\ node_sequence' = Append(node_sequence, REASON)
                => current_iteration' = current_iteration + 1 ]_vars

C23_SharedSessionRace ==
    \A who \in DOMAIN conv :
        conv[who].obs # "" => conv[OtherConv(who)].mutated

\* one conversation finds an open session on an uninitialized client while
\* the other is suspended inside its recovery
C23_Witness ==
    \E who \in DOMAIN conv :
        /\ conv[who].obs \in { "open_uninitialized", "open_no_catalog" }
        /\ conv[OtherConv(who)].at \in { "c1", "c2", "i1", "i2" }

\* a conversation has issued a call on a tool whose session the other closed
C23_ClosedToolReached ==
    \E who \in DOMAIN conv : conv[who].obs = "closed_tool"

\* node_sequence is a prefix of (reason, act, observe)^k, reason, finalize
StructureOK(ns) ==
    \A i \in 1..Len(ns) :
        /\ i = 1 => ns[i] = REASON
        /\ i > 1 => /\ ns[i - 1] = REASON => ns[i] \in { ACT, FINALIZE }
                    /\ ns[i - 1] = ACT => ns[i] = OBSERVE
                    /\ ns[i - 1] = OBSERVE => ns[i] = REASON
                    /\ ns[i - 1] # FINALIZE

\* the Reason step that is completing appended an assistant turn with calls
ProducedToolCall ==
    /\ messages' # messages
    /\ Last(messages').role = "ai"
    /\ Last(messages').calls # NoCalls

\* C24: transition structure.  The engine starts in Reason; Reason goes to
\* Act exactly when its step produced at least one tool call and
\* current_iteration < max_iterations, and to Finalize otherwise; Act goes to
\* Observe, Observe to Reason, Finalize ends the turn; node_sequence is always
\* a prefix of (reason, act, observe)^k, reason, finalize.
C24_TransitionStructure ==
    /\ [](node_sequence = << >> => pc \in { REASON, "raised" })
    /\ [](StructureOK(node_sequence))
    /\ [](pc = "end" => Last(node_sequence) = FINALIZE)
    /\ [][ /\ (pc = REASON /\ pc' \in { ACT, FINALIZE })
                => (pc' = ACT <=> ( /\ ProducedToolCall
                                    /\ current_iteration' < max_iterations ))
           /\ (pc = ACT /\ pc' # ACT) => pc' = OBSERVE
           /\ (pc = OBSERVE /\ pc' \notin { OBSERVE, "raised" }) => pc' = REASON
           /\ (pc = FINALIZE /\ pc' # FINALIZE) => pc' = "end" ]_vars

\* the same statement for Reason steps whose model stream was not empty
C24_NonEmptyStreams ==
    /\ [](StructureOK(node_sequence))
    /\ [][ (pc = REASON /\ pc' \in { ACT, FINALIZE } /\ messages' # messages)
                => (pc' = ACT <=> ( /\ ProducedToolCall
                                    /\ current_iteration' < max_iterations )) ]_vars

ToolMessagesWith(msgs, id) ==
    { i \in 1..Len(msgs) : msgs[i].role = "tool" /\ msgs[i].id = id }

RecordsWith(th, id) == { i \in 1..Len(th) : th[i].tool_call_id = id }

ReasonCompletes ==
    /\ pc = REASON
    /\ node_sequence' = Append(node_sequence, REASON)

\* C27: after every Reason step the assistant turn of that step is the last
\* element of messages and is_final_answer is true exactly when that turn
\* requested no tool calls, also when the model's stream for the step is
\* empty.
C27_FinalAnswerFlag ==
    [][ ReasonCompletes
        => /\ Len(messages') = Len(messages) + 1
           /\ Last(messages').role = "ai"
           /\ is_final_answer' = (Last(messages').calls = NoCalls) ]_vars

\* the same statement for Reason steps whose model stream carried a chunk
C27_NonEmptyStreams ==
    [][ (ReasonCompletes /\ messages' # messages)
        => /\ Len(messages') = Len(messages) + 1
           /\ Last(messages').role = "ai"
           /\ is_final_answer' = (Last(messages').calls = NoCalls) ]_vars

\* positions of gateway_log holding the first invocation of a call of the
\* last Act step
FirstInvocations ==
    { i \in 1..Len(gateway_log) :
        /\ gateway_log[i].op = "invoke"
        /\ \A j \in 1..(i - 1) :
              ~ ( /\ gateway_log[j].op = "invoke"
                  /\ gateway_log[j].idx = gateway_log[i].idx ) }

\* the gateway operations Act performed for the call at position idx
OpsOfCall(idx) ==
    SelectSeq(gateway_log, LAMBDA en : en.idx = idx)

\* the call whose first invocation raised f was handled as a plain failure
PlainFailure(i) ==
    /\ Len(OpsOfCall(gateway_log[i].idx)) = 1
    /\ \E k \in 1..Len(tool_history) :
          /\ tool_history[k].tool = gateway_log[i].name
          /\ tool_history[k].args = gateway_log[i].args
          /\ ~tool_history[k].success
          /\ tool_history[k].kind = "error:fault"

\* C26: a fault raised by a tool invocation that is not a session-closed
\* fault, including a fault of another type whose message only mentions the
\* session-closed error name, causes no close, no initialize and no second
\* invocation and is recorded as a failure carrying the fault; only a
\* session-closed fault is followed by close and initialize.
C26_FaultClassification ==
    \A i \in FirstInvocations :
        /\ gateway_log[i].out \in { "mention", "other" } => PlainFailure(i)
        /\ Len(OpsOfCall(gateway_log[i].idx)) > 1 => gateway_log[i].out = "closed"

\* the same statement for faults whose type and message do not name the
\* session-closed error
C26_UnrelatedFaults ==
    \A i \in FirstInvocations :
        /\ gateway_log[i].out = "other" => PlainFailure(i)
        /\ Len(OpsOfCall(gateway_log[i].idx)) > 1
              => gateway_log[i].out \in { "closed", "mention" }

\* a Finalize step is completing
FinalizeCompletes ==
    /\ pc = FINALIZE
    /\ node_sequence' = Append(node_sequence, FINALIZE)

\* Finalize changes nothing but node_sequence and execution_logs, and its log
\* entry counts the records of tool_history
FinalizeFrame ==
    FinalizeCompletes
    => /\ UNCHANGED << messages, tool_history, processed_tools,
                       current_iteration, max_iterations, is_final_answer >>
       /\ Len(execution_logs') = Len(execution_logs) + 1
       /\ Last(execution_logs') =
              Log(FINALIZE, current_iteration, "total_tools_used",
                  Len(tool_history))

\* C28: Finalize leaves messages, tool_history, processed_tools,
\* current_iteration, max_iterations and is_final_answer unchanged and only
\* appends 'finalize' to node_sequence and one log entry whose
\* total_tools_used is the length of tool_history; the message chat reads its
\* answer from, the last element of messages, is at Finalize the assistant
\* turn produced by the most recent Reason step.
C28_FinalizeFrame ==
    [][ /\ FinalizeFrame
        /\ (ReasonCompletes /\ pc' = FINALIZE)
              => /\ messages' # messages
                 /\ ChatAnswerMessage(messages').role = "ai"
                 /\ Len(messages') = Len(messages) + 1
        /\ FinalizeCompletes => ChatAnswerMessage(messages').role = "ai" ]_vars

\* the frame part of the statement alone
C28_FrameOnly == [][ FinalizeFrame ]_vars

\* an Act step is completing
ActCompletes ==
    /\ pc = ACT
    /\ node_sequence' = Append(node_sequence, ACT)

\* the records the completing Act step appended for the call c
RecordsOfCall(c) ==
    SelectSeq(SubSeq(tool_history', Len(tool_history) + 1, Len(tool_history')),
              LAMBDA r : r.tool_call_id = c.id /\ r.tool = c.name)

\* the call at position idx was handled as a catalog miss: nothing invoked,
\* no recovery, one failure record listing the first min(10, size) names of
\* the catalog in catalog order
HandledAsMiss(calls, idx) ==
    /\ \A k \in 1..Len(gateway_log') : gateway_log'[k].idx # idx
    /\ client' = client
    /\ Len(RecordsOfCall(calls[idx])) = 1
    /\ LET rec == RecordsOfCall(calls[idx])[1]
       IN  /\ ~rec.success
           /\ rec.kind = "error:not_found"
           /\ Len(rec.listed) = IF Len(tools) < 10 THEN Len(tools) ELSE 10
           /\ \A k \in 1..Len(rec.listed) : rec.listed[k] = tools[k]

StatedCap(family) ==
    IF family \in { "spaces", "folders", "lists", "database_query" }
    THEN 20 ELSE 15

MinOf(a, b) == IF a < b THEN a ELSE b

\* a formatter has summarized a payload whose container has its shape
Summarized == Len(result) = 2 /\ result[1].container

AllObjects(items) == \A i \in 1..Len(items) : items[i] = "dict"

ObservationBound == 2000 + 23 + 7

\* C31: every observation synthesized for a successful tool call stays within
\* one bound that does not depend on the tool result, whatever the shape of
\* the result (plain string, JSON-encoded string, map, list, scalar); a
\* non-JSON string of more than 2000 characters is cut to 2000 characters
\* plus the trailer.
C31_ObservationSizeBound ==
    Len(result) = 2
    => /\ result[2].length <= ObservationBound
       /\ (result[1].shape = "text" /\ result[1].n > 2000)
             => result[2].length = 2000 + 23 + Digits(result[1].n)

\* the part of the statement about strings that are not JSON, and scalars
C31_PlainStringsBounded ==
    (Len(result) = 2 /\ result[1].shape \in { "text", "scalar" })
    => /\ result[2].length <= ObservationBound
       /\ (result[1].shape = "text" /\ result[1].n > 2000)
             => result[2].length = 2000 + 23 + Digits(result[1].n)

\* the summary of a map, a JSON-encoded map or a non-empty list holds the
\* whole strings of the result
C31_StructuredGrow ==
    (Len(result) = 2 /\ \/ result[1].shape \in { "dict", "json" }
                        \/ result[1].shape \in { "list", "spaces" }
                             /\ result[1].c > 0)
    => result[2].length >= result[1].n

IsPrefixOf(a, b) == Len(a) <= Len(b) /\ SubSeq(b, 1, Len(a)) = a

\* the elements a step added at the end of a sequence
AddedTo(a, b) == SubSeq(b, Len(a) + 1, Len(b))

\* C32: within a run every stage step leaves the existing prefix of
\* messages, node_sequence, execution_logs and tool_history unchanged;
\* Reason adds at most one message, Act adds none, Observe adds only
\* tool-result messages.
C32_AppendOnlyHistory ==
    [][ /\ IsPrefixOf(messages, messages')
        /\ IsPrefixOf(node_sequence, node_sequence')
        /\ IsPrefixOf(execution_logs, execution_logs')
        /\ IsPrefixOf(tool_history, tool_history')
        /\ pc = REASON => Len(messages') <= Len(messages) + 1
        /\ pc = ACT => messages' = messages
        /\ pc = OBSERVE
              => \A i \in 1..Len(AddedTo(messages, messages')) :
                     IsToolMessage(AddedTo(messages, messages')[i])
        /\ pc = FINALIZE => messages' = messages ]_vars

\* a turn that has gone through Reason, Act, Observe and Reason has reached
\* Finalize with tool results in messages and records in tool_history
C32_Witness ==
    /\ pc = "end"
    /\ Len(tool_history) >= 1
    /\ Len(node_sequence) >= 5
    /\ \E i \in 1..Len(messages) : IsToolMessage(messages[i])

\* positions of the tool-result messages that answer the call id issued by
\* the assistant turn at position i: those between i and the next assistant
\* turn
AnswersTo(i, id) ==
    { j \in (i + 1)..Len(messages) :
        /\ IsToolMessage(messages[j])
        /\ messages[j].id = id
        /\ \A k \in (i + 1)..(j - 1) : messages[k].role # "ai" }

\* every tool call id issued by an assistant turn of messages has exactly
\* one tool-result message after it
AllCallsAnswered ==
    \A i \in 1..Len(messages) :
        messages[i].role = "ai"
            => \A c \in 1..Len(messages[i].calls) :
                   messages[i].calls[c].id # ""
                       => Cardinality(AnswersTo(i, messages[i].calls[c].id)) = 1

\* C33: when a turn has reached Finalize, by a tool-free Reason or by the
\* iteration ceiling, every tool call id issued by an assistant turn in
\* messages has exactly one tool-result message after it.
C33_NoUnresolvedToolCall ==
    pc \in { FINALIZE, "end" } => AllCallsAnswered

\* the same statement for turns whose last Reason step requested no tool
C33_ToolFreeFinish ==
    ( /\ pc \in { FINALIZE, "end" }
      /\ Last(messages).role = "ai"
      /\ Last(messages).calls = NoCalls ) => AllCallsAnswered

\* C34: the tool list the engine looks names up in and binds to the model
\* is the catalog of the session client's current session; in particular
\* after the health check of Act has closed and reinitialized the session
\* the engine's cached list equals the client's freshly loaded catalog.
C34_EngineCatalogFresh ==
    (mcp_client /\ client.initialized) => tools = client.tools

\* the tool calls of the last assistant turn of messages
LastAssistantCalls ==
    LET idxs == { i \in 1..Len(messages) : messages[i].role = "ai" }
    IN  IF idxs = {} THEN NoCalls
        ELSE messages[CHOOSE i \in idxs : \A j \in idxs : j <= i].calls

\* the last step was an Act whose health check raised
HealthCheckFailed ==
    /\ execution_logs # << >>
    /\ Last(execution_logs).node = ACT
    /\ Last(execution_logs).key = "error"

\* C35: when ensure_session raises at the start of Act, no tool is invoked,
\* one failure record carrying the session-initialization error and the
\* call's id is appended for each tool call of the last assistant turn, Act
\* returns normally, and the following Observe emits one failure observation
\* per non-empty call id and hands control back to Reason.
C35_FailedHealthCheck ==
    /\ [](HealthCheckFailed => (pc = OBSERVE /\ gateway_log = << >>))
    /\ [][ HealthCheckFailed'
           => LET added == AddedTo(tool_history, tool_history')
              IN  /\ Len(added) = Len(LastAssistantCalls)
                  /\ \A i \in 1..Len(added) :
                        /\ added[i].tool_call_id = LastAssistantCalls[i].id
                        /\ added[i].tool = LastAssistantCalls[i].name
                        /\ ~added[i].success
                        /\ added[i].kind = "error:session_init" ]_vars
    /\ [][ HealthCheckFailed
           => LET added == AddedTo(messages, messages')
                  ids == { LastAssistantCalls[i].id :
                             i \in 1..Len(LastAssistantCalls) } \ { "" }
              IN  /\ pc' = REASON
                  /\ Len(added) = Cardinality(ids)
                  /\ \A id \in ids :
                        \E i \in 1..Len(added) :
                            /\ added[i].id = id
                            /\ added[i].body = "failure" ]_vars

\* the same statement for an Act that follows a Reason step which appended
\* an assistant turn with call ids not used before
C35_AfterAssistantTurn ==
    /\ [](HealthCheckFailed => (pc = OBSERVE /\ gateway_log = << >>))
    /\ [][ (HealthCheckFailed' /\ Last(messages).role = "ai")
           => LET added == AddedTo(tool_history, tool_history')
              IN  /\ Len(added) = Len(LastAssistantCalls)
                  /\ \A i \in 1..Len(added) :
                        /\ added[i].tool_call_id = LastAssistantCalls[i].id
                        /\ added[i].tool = LastAssistantCalls[i].name
                        /\ ~added[i].success
                        /\ added[i].kind = "error:session_init" ]_vars
    /\ [][ ( /\ HealthCheckFailed
             /\ Last(messages).role = "ai"
             /\ \A i \in 1..Len(LastAssistantCalls) :
                    ToolMessagesWith(messages, LastAssistantCalls[i].id) = {} )
           => LET added == AddedTo(messages, messages')
                  ids == { LastAssistantCalls[i].id :
                             i \in 1..Len(LastAssistantCalls) } \ { "" }
              IN  /\ pc' = REASON
                  /\ Len(added) = Cardinality(ids)
                  /\ \A id \in ids :
                        \E i \in 1..Len(added) :
                            /\ added[i].id = id
                            /\ added[i].body = "failure" ]_vars

\* the values a finished invocation reported are those of its own run
OwnFinal(who) ==
    /\ conv[who].final.owner = who
    /\ conv[who].final.node_sequence = conv[who].path

\* C36: the final event of a stream_chat invocation reports the final state
\* of that invocation's own run, also when another chat / stream_chat
\* invocation ran for the same conversation id at the same time
C36_FinalEventOfOwnRun ==
    \A who \in { 1, 2 } :
        (conv[who].at = "done" /\ conv[who].kind = "stream_chat")
            => OwnFinal(who)

\* an invocation that had the conversation id to itself reports its own run
C36_AloneOwnRun ==
    \A who \in { 1, 2 } :
        (conv[who].at = "done" /\ conv[3 - who].at = "idle") => OwnFinal(who)

\* C37: on one client, whatever the calls and their failures, the initialized
\* flag is true exactly when the client holds an open session and transport,
\* and a client whose flag is false holds no open session or transport handle
C37_ClientResourceInvariant ==
    /\ client.initialized <=> (client.session = "open" /\ client.stdio = "open")
    /\ ~client.initialized => (client.session # "open" /\ client.stdio # "open")

\* a client whose flag is true holds an open session and transport
C37_InitializedHoldsHandles ==
    client.initialized => (client.session = "open" /\ client.stdio = "open")

\* close() leaves a client that a failed initialize() left behind as it is
C37_CloseAfterFailedInitialize ==
    [][(gateway_log'[1].op = "close" /\ ~client.initialized)
          => client' = client]_vars

\* the tool invocations of the turn that have ended, and the tool_result
\* events of the stream
EndedInvocations == SelectSeq(result, LAMBDA inv : inv.outcome # "running")

ToolResultEvents == SelectSeq(sse, LAMBDA e : e.type = "tool_result")

\* C38: in the supervisor stream each tool invocation of the turn yields
\* exactly one tool_result event whose success flag is true exactly when the
\* invocation succeeded, and the final event counts every invocation, the
\* failed ones included
C38_SupervisorToolOutcomes ==
    /\ Len(ToolResultEvents) = Len(EndedInvocations)
    /\ \A i \in 1..Len(ToolResultEvents) :
         ToolResultEvents[i].data =
             << EndedInvocations[i].tool, ToolSucceeded(EndedInvocations[i]) >>
    /\ gen.at = "post" => sse[Len(sse)].data[2] = Len(EndedInvocations)

\* every invocation whose on_tool_end event arrived has one tool_result
\* event, in order, and the final event counts these
C38_EndedToolsReported ==
    LET ended == SelectSeq(result, LAMBDA inv :
                     inv.outcome \in { "returned", "error_output" })
    IN  /\ Len(ToolResultEvents) = Len(ended)
        /\ \A i \in 1..Len(ended) : ToolResultEvents[i].data[1] = ended[i].tool
        /\ gen.at = "post" => sse[Len(sse)].data[2] = Len(ended)

\* a turn whose tool invocations all succeed is reported as the claim says
C38_AllSucceeded ==
    (\A i \in 1..Len(result) : result[i].outcome \in { "running", "returned" })
        => C38_SupervisorToolOutcomes

====
